---- MODULE Spec2Model ----
(***************************************************************************)
(* A model of doctl's 'serverless' extra commands: the include/exclude     *)
(* normalizer (SpecNorm), 'serverless deploy' (SpecDeploy) and             *)
(* 'serverless init' (SpecCreate), with the helpers they are built from.   *)
(*                                                                         *)
(* Go strings are sequences of one-character strings, so that Split, Join, *)
(* Contains, Replace and ToLower are computed as the library computes them.*)
(***************************************************************************)
EXTENDS Integers, Sequences, FiniteSets, TLC

VARIABLES
    pc,      \* position of the invocation: "start" before the handler ran, "done" after
    cmd,     \* the handler that ran ("none" before)
    args,    \* c.Args, the positional arguments
    doit,    \* c.Doit, the flag store of the invocation
    given,   \* the flag store and the file system as they were when the invocation began
    result,  \* the error the handler returned
    out,     \* c.Out, the writes made directly to the output stream
    calls,   \* the calls made to collaborators, each with what it returned
    fs,      \* the file system: path -> entry
    host     \* the remote functions host: what fails when contacted, its runtimes

vars == <<pc, cmd, args, doit, given, result, out, calls, fs, host>>

----------------------------------------------------------------------------
(* Bounds of the model.                                                    *)

\* most comma-separated tokens in an --include / --exclude value
MaxTokens == 2

----------------------------------------------------------------------------
(* String library (Go package strings).                                    *)

\* the empty string
EmptyStr == <<>>

\* s[i:] of Go, 1-based: the suffix of s that starts at position i
Suffix(s, i) == SubSeq(s, i, Len(s))

\* strings.HasPrefix, at offset i of s
MatchAt(s, sub, i) ==
    /\ i + Len(sub) - 1 <= Len(s)
    /\ SubSeq(s, i, i + Len(sub) - 1) = sub

\* strings.Index, 1-based; 0 when sub does not occur in s
Index(s, sub) ==
    IF \E i \in 1..(Len(s) + 1) : MatchAt(s, sub, i)
    THEN CHOOSE i \in 1..(Len(s) + 1) :
            /\ MatchAt(s, sub, i)
            /\ \A j \in 1..(i - 1) : ~MatchAt(s, sub, j)
    ELSE 0

\* strings.Contains
Contains(s, sub) == Index(s, sub) # 0

\* strings.Replace(s, old, new, 1): the leftmost occurrence only
ReplaceFirst(s, old, new) ==
    LET i == Index(s, old)
    IN  IF i = 0 THEN s
        ELSE SubSeq(s, 1, i - 1) \o new \o Suffix(s, i + Len(old))

RECURSIVE Split(_, _)
\* strings.Split(s, sep) for a non-empty sep: always at least one token
Split(s, sep) ==
    LET i == Index(s, sep)
    IN  IF i = 0 THEN <<s>>
        ELSE <<SubSeq(s, 1, i - 1)>> \o Split(Suffix(s, i + Len(sep)), sep)

RECURSIVE Join(_, _)
\* strings.Join(tokens, sep)
Join(tokens, sep) ==
    IF tokens = <<>> THEN EmptyStr
    ELSE IF Len(tokens) = 1 THEN tokens[1]
    ELSE tokens[1] \o sep \o Join(Tail(tokens), sep)

\* v, evaluated once, handed to F: the value of a local variable
With(v, F(_)) == CHOOSE r \in { F(x) : x \in {v} } : TRUE

----------------------------------------------------------------------------
(* String constants of the program.                                        *)

comma == <<",">>
keywordWeb == <<"w","e","b">>
webSlash == <<"w","e","b","/">>

----------------------------------------------------------------------------
(* The flag store c.Doit: a flag is a value and the error of its lookup.   *)

flagInclude == "include"
flagExclude == "exclude"

\* a flag that was given the value v
FlagSet(v) == [err |-> FALSE, val |-> v]
\* a flag whose lookup fails
FlagUnset == [err |-> TRUE, val |-> EmptyStr]

----------------------------------------------------------------------------
(* Include/Exclude normalizer.                                             *)

qualifyWebWithSlash_Substring(original) ==
    LET tokens == Split(original, comma)
    IN  Join([i \in 1..Len(tokens) |->
                 IF Contains(tokens[i], keywordWeb) THEN tokens[i] \o <<"/">>
                 ELSE tokens[i]], comma)

qualifyWebWithSlash(original) ==
    LET tokens == Split(original, comma)
    IN  Join([i \in 1..Len(tokens) |->
                 IF tokens[i] = keywordWeb THEN webSlash ELSE tokens[i]], comma)

adjustIncludeAndExclude_NoAppend(d) ==
    LET inc == d[flagInclude]
        exc == d[flagExclude]
        d1  == IF ~inc.err /\ inc.val # EmptyStr
               THEN [d EXCEPT ![flagInclude] = FlagSet(qualifyWebWithSlash(inc.val))]
               ELSE d
    IN  IF ~exc.err /\ exc.val # EmptyStr
        THEN [d1 EXCEPT ![flagExclude] = FlagSet(qualifyWebWithSlash(exc.val))]
        ELSE [d1 EXCEPT ![flagExclude] = FlagSet(keywordWeb)]

adjustIncludeAndExclude_AppendFirst(d) ==
    LET inc == d[flagInclude]
        exc == d[flagExclude]
        d1  == IF ~inc.err /\ inc.val # EmptyStr
               THEN [d EXCEPT ![flagInclude] = FlagSet(qualifyWebWithSlash(inc.val))]
               ELSE d
    IN  IF ~exc.err /\ exc.val # EmptyStr
        THEN [d1 EXCEPT ![flagExclude] =
                 FlagSet(qualifyWebWithSlash(exc.val \o comma \o keywordWeb))]
        ELSE [d1 EXCEPT ![flagExclude] = FlagSet(keywordWeb)]

\* adjustIncludeAndExclude: the options after the normalizer
adjustIncludeAndExclude(d) ==
    LET inc == d[flagInclude]
        exc == d[flagExclude]
        d1  == IF ~inc.err /\ inc.val # EmptyStr
               THEN [d EXCEPT ![flagInclude] = FlagSet(qualifyWebWithSlash(inc.val))]
               ELSE d
    IN  IF ~exc.err /\ exc.val # EmptyStr
        THEN [d1 EXCEPT ![flagExclude] =
                 FlagSet(qualifyWebWithSlash(exc.val) \o comma \o keywordWeb)]
        ELSE [d1 EXCEPT ![flagExclude] = FlagSet(keywordWeb)]

----------------------------------------------------------------------------
(* Inputs of the normalizer.                                               *)

\* the tokens a user writes between commas: empty, the reserved folder, the
\* reserved folder already qualified, a name that only contains it, another
NormTokens ==
    { EmptyStr, keywordWeb, webSlash,
      <<"w","e","b","a","p","p">>, <<"f","o","o">> }

\* the token lists of at most MaxTokens tokens
TokenLists == UNION { [1..n -> NormTokens] : n \in 1..MaxTokens }

\* the values of a string option: not given, or a comma-separated list
OptionValues == { FlagUnset } \cup { FlagSet(Join(t, comma)) : t \in TokenLists }

NoResult == [kind |-> "none", arg |-> EmptyStr]

\* the file system with nothing in it
EmptyFs == <<>>

\* a host that is not contacted
NoHost == [statusOk |-> TRUE, credsOk |-> TRUE, infoOk |-> TRUE, runtimes |-> {}]

\* an invocation that has not run: the options as the user gave them
InitNorm ==
    /\ pc = "start"
    /\ cmd = "none"
    /\ args = <<>>
    /\ doit \in [ {flagInclude, flagExclude} -> OptionValues ]
    /\ given = [doit |-> doit, fs |-> EmptyFs]
    /\ result = NoResult
    /\ out = <<>>
    /\ calls = <<>>
    /\ fs = EmptyFs
    /\ host = NoHost

\* the normalizer applied to the options of the invocation
Normalize ==
    /\ pc = "start"
    /\ pc' = "done"
    /\ cmd' = "normalize"
    /\ doit' = adjustIncludeAndExclude(doit)
    /\ UNCHANGED <<args, given, result, out, calls, fs, host>>

NextNorm == Normalize

SpecNorm == InitNorm /\ [][NextNorm]_vars

----------------------------------------------------------------------------
(* Claims about the normalizer, checked under SpecNorm.                    *)

strFooWeb == <<"f","o","o",",","w","e","b">>
strFooWebSlashWeb == <<"f","o","o",",","w","e","b","/",",","w","e","b">>

\* the option was given with a non-empty value
Present(f) == ~f.err /\ f.val # EmptyStr

\* 'after' holds the tokens of 'before', in order, each token equal to "web"
\* turned into "web/" and every other token kept
WebQualified(before, after) ==
    /\ Len(after) = Len(before)
    /\ \A i \in 1..Len(before) :
          after[i] = IF before[i] = keywordWeb THEN webSlash ELSE before[i]

(* C4: after the normalizer ran, the exclude option is exactly "web" when it
   was unset or empty; otherwise it is the given comma-separated list with
   every token equal to "web" turned into "web/", the other tokens and the
   order kept, followed by one more token "web"; "foo,web" gives
   "foo,web/,web". *)
C4_ExcludeNormalized ==
    (pc = "done" /\ cmd = "normalize") =>
        LET e0 == given.doit[flagExclude]
            e1 == doit[flagExclude]
        IN  /\ ~e1.err
            /\ ~Present(e0) => e1.val = keywordWeb
            /\ Present(e0) =>
                  LET t0 == Split(e0.val, comma)
                      t1 == Split(e1.val, comma)
                  IN  /\ Len(t1) = Len(t0) + 1
                      /\ t1[Len(t1)] = keywordWeb
                      /\ WebQualified(t0, SubSeq(t1, 1, Len(t0)))
            /\ (~e0.err /\ e0.val = strFooWeb) => e1.val = strFooWebSlashWeb

C4_Witness ==
    /\ pc = "done" /\ cmd = "normalize"
    /\ ~given.doit[flagExclude].err
    /\ given.doit[flagExclude].val = strFooWeb
    /\ doit[flagExclude].val = strFooWebSlashWeb

(* C5: the normalizer rewrites the include option only when it was given
   with a non-empty value: every token equal to "web" becomes "web/", every
   other token (also "web/" and "webapp") is kept, and the number and order
   of the tokens do not change; an unset or empty include option is left as
   it was. *)
C5_IncludeNormalized ==
    (pc = "done" /\ cmd = "normalize") =>
        LET i0 == given.doit[flagInclude]
            i1 == doit[flagInclude]
        IN  /\ ~Present(i0) => i1 = i0
            /\ Present(i0) =>
                  /\ ~i1.err
                  /\ WebQualified(Split(i0.val, comma), Split(i1.val, comma))

C5_Witness ==
    /\ pc = "done" /\ cmd = "normalize"
    /\ ~given.doit[flagInclude].err
    /\ given.doit[flagInclude].val = <<"w","e","b","a","p","p",",","w","e","b">>
    /\ doit[flagInclude].val = <<"w","e","b","a","p","p",",","w","e","b","/">>

----------------------------------------------------------------------------
(* Errors: a kind and the text the message is built from.                  *)

NilErr == [kind |-> "nil", arg |-> EmptyStr]

\* doctl.NewMissingArgsErr
MissingArgsErr == [kind |-> "missing-args", arg |-> EmptyStr]

\* an error returned by the backend invocation
BackendErr(msg) == [kind |-> "backend", arg |-> msg]

\* an error returned by the display call
DisplayErr == [kind |-> "display", arg |-> <<"d","i","s","p","l","a","y"," ","f","a","i","l","e","d">>]

\* exactly one positional argument, or the missing-arguments error
ensureOneArg(a) == IF Len(a) # 1 THEN MissingArgsErr ELSE NilErr

----------------------------------------------------------------------------
(* serverless deploy.                                                      *)

strDeployingProject == <<"D","e","p","l","o","y","i","n","g"," ","p","r","o","j","e","c","t">>
strDeployed == <<"D","e","p","l","o","y","e","d">>
strDeployedActions == <<"D","e","p","l","o","y","e","d"," ","a","c","t","i","o","n","s">>
strDeployedFunctions == <<"D","e","p","l","o","y","e","d"," ","f","u","n","c","t","i","o","n","s"," ","(","'","d","o","c","t","l"," ","s","b","x"," ","f","n"," ","g","e","t"," ","<","f","u","n","c","N","a","m","e",">"," ","-","-","u","r","l","'"," ","f","o","r"," ","U","R","L",")",":">>
newline == <<"\n">>

\* the flags 'deploy' forwards to the backend
deployBoolFlags == <<"insecure", "verbose-build", "verbose-zip", "yarn", "remote-build", "incremental">>
deployStringFlags == <<"env", "build-env", "apihost", "auth", "include", "exclude">>

\* a call to a collaborator: the operation and flag lists it was given, the
\* flag store it saw, the transcript it returned (RunServerlessExec) or was
\* handed (PrintServerlessTextOutput), and the error it returned
Call(fn, op, bools, strs, d, captured, err) ==
    [fn |-> fn, op |-> op, bools |-> bools, strs |-> strs, doit |-> d,
     captured |-> captured, err |-> err]

fixupLine_WholeLine(value) ==
    IF Contains(value, strDeployingProject) THEN strDeployed
    ELSE IF Contains(value, strDeployedActions) THEN strDeployedFunctions
    ELSE value

fixupLine_NoBranding(value) ==
    IF Contains(value, strDeployingProject)
    THEN ReplaceFirst(value, strDeployingProject, strDeployed)
    ELSE value

\* the body of the loop over output.Captured
fixupLine(value) ==
    IF Contains(value, strDeployingProject)
    THEN ReplaceFirst(value, strDeployingProject, strDeployed)
    ELSE IF Contains(value, strDeployedActions) THEN strDeployedFunctions
    ELSE value

fixupCaptured_DropsBlankLines(captured) ==
    SelectSeq([i \in 1..Len(captured) |-> fixupLine(captured[i])],
              LAMBDA line : line # EmptyStr)

\* the loop over output.Captured
fixupCaptured(captured) == [i \in 1..Len(captured) |-> fixupLine(captured[i])]

\* fmt.Fprintln(c.Out, s): one write of s and a line break, which may fail
Fprintln(o, s, ok) == Append(o, [data |-> s \o newline, ok |-> ok])

deployTail_WriteErrMasks(exec, captured, err, printErr, writeOk) ==
    LET fixed == fixupCaptured(captured)
    IN  IF err # NilErr /\ Len(captured) = 0
        THEN [result |-> err, calls |-> <<exec>>, out |-> <<>>]
        ELSE IF err = NilErr
        THEN [result |-> printErr,
              calls  |-> <<exec, Call("PrintServerlessTextOutput", "", <<>>, <<>>,
                                      exec.doit, fixed, printErr)>>,
              out    |-> <<>>]
        ELSE [result |-> IF writeOk THEN err ELSE DisplayErr,
              calls  |-> <<exec>>,
              out    |-> Fprintln(<<>>, Join(fixed, newline), writeOk)]

\* RunServerlessExtraDeploy after the backend returned (captured, err):
\* what it returns, the calls it made and what it wrote to c.Out
deployTail(exec, captured, err, printErr, writeOk) ==
    LET fixed == fixupCaptured(captured)
    IN  IF err # NilErr /\ Len(captured) = 0
        THEN [result |-> err, calls |-> <<exec>>, out |-> <<>>]
        ELSE IF err = NilErr
        THEN [result |-> printErr,
              calls  |-> <<exec, Call("PrintServerlessTextOutput", "", <<>>, <<>>,
                                      exec.doit, fixed, printErr)>>,
              out    |-> <<>>]
        ELSE [result |-> err,
              calls  |-> <<exec>>,
              out    |-> Fprintln(<<>>, Join(fixed, newline), writeOk)]

----------------------------------------------------------------------------
(* Inputs of deploy.                                                       *)

\* most lines in a captured transcript
MaxLines == 2

strProj == <<"p","r","o","j">>
strOther == <<"o","t","h","e","r">>

\* the pieces transcript lines are made of: the two markers and other text
LineChunks == { strDeployingProject, strDeployedActions, <<" ","X">> }

\* the lines the backend may capture: empty, one piece, or two pieces
TranscriptLines ==
    { EmptyStr } \cup LineChunks \cup { a \o b : a \in LineChunks, b \in LineChunks }

\* the transcripts of at most MaxLines lines
Transcripts == UNION { [1..n -> TranscriptLines] : n \in 0..MaxLines }

\* what the backend invocation may return as its error
BackendOutcomes ==
    { NilErr,
      BackendErr(<<"b","a","c","k","e","n","d"," ","f","a","i","l","e","d">>),
      BackendErr(<<"b","a","c","k","e","n","d"," ","t","i","m","e","d"," ","o","u","t">>) }

\* the argument lists: none, one directory, two
ExecArgs == { <<>>, <<strProj>>, <<strProj, strOther>> }

\* the include and exclude options of a deploy
ExecOptionValues == { FlagUnset, FlagSet(strFooWeb) }

InitDeploy ==
    /\ pc = "start"
    /\ cmd = "none"
    /\ args \in ExecArgs
    /\ doit \in [ {flagInclude, flagExclude} -> ExecOptionValues ]
    /\ given = [doit |-> doit, fs |-> EmptyFs]
    /\ result = NoResult
    /\ out = <<>>
    /\ calls = <<>>
    /\ fs = EmptyFs
    /\ host = NoHost

\* one run of 'serverless deploy'; the backend's answer, the display call's
\* result and the fate of the write to c.Out are the environment's
RunServerlessExtraDeploy ==
    /\ pc = "start"
    /\ pc' = "done"
    /\ cmd' = "deploy"
    /\ doit' = adjustIncludeAndExclude(doit)
    /\ IF ensureOneArg(args) # NilErr
       THEN /\ result' = ensureOneArg(args)
            /\ UNCHANGED <<out, calls>>
       ELSE \E captured \in Transcripts, err \in BackendOutcomes,
               printErr \in {NilErr, DisplayErr}, writeOk \in BOOLEAN :
               \E r \in { deployTail(Call("RunServerlessExec", "deploy", deployBoolFlags,
                                          deployStringFlags, doit', captured, err),
                                     captured, err, printErr, writeOk) } :
                   /\ result' = r.result
                   /\ calls' = r.calls
                   /\ out' = r.out
    /\ UNCHANGED <<args, given, fs, host>>

NextDeploy == RunServerlessExtraDeploy

SpecDeploy == InitDeploy /\ [][NextDeploy]_vars

----------------------------------------------------------------------------
(* Claims about deploy, checked under SpecDeploy.                          *)

\* deploy ran and reached the backend
DeployExecuted ==
    /\ pc = "done" /\ cmd = "deploy"
    /\ Len(calls) >= 1 /\ calls[1].fn = "RunServerlessExec"

\* the transcript and the error the backend returned
BackendCaptured == calls[1].captured
BackendError == calls[1].err

\* the lines of the one direct write to c.Out, without its final line break
WrittenLines ==
    Split(SubSeq(out[1].data, 1, Len(out[1].data) - 1), newline)

\* the write to c.Out is one whole line-terminated text
OneWrite ==
    /\ Len(out) = 1
    /\ Len(out[1].data) >= 1
    /\ out[1].data[Len(out[1].data)] = "\n"

\* the transcript was shown: handed to the display call when the backend
\* returned no error, written to c.Out when it returned one
TranscriptShown ==
    /\ DeployExecuted
    /\ BackendCaptured # <<>>
    /\ IF BackendError = NilErr
       THEN Len(calls) = 2 /\ calls[2].fn = "PrintServerlessTextOutput"
       ELSE OneWrite

\* the lines that were shown
ShownLines == IF BackendError = NilErr THEN calls[2].captured ELSE WrittenLines

\* 'after' is 'line' with its leftmost "Deploying project" reading "Deployed"
FirstMarkerReplaced(line, after) ==
    \E k \in 1..Len(line) :
        /\ MatchAt(line, strDeployingProject, k)
        /\ \A j \in 1..(k - 1) : ~MatchAt(line, strDeployingProject, j)
        /\ after = SubSeq(line, 1, k - 1) \o strDeployed
                     \o Suffix(line, k + Len(strDeployingProject))

(* C1: when the backend invocation of deploy returns an error, the command
   returns that error; with an empty transcript nothing is written to the
   output stream; with a non-empty transcript the whole transcript (as many
   lines as were captured, the lines without a marker verbatim) is written
   to the output stream in one write, and the error returned is the backend's
   whether or not that write succeeded.  The display call is not made. *)
C1_DeployErrorPath ==
    (DeployExecuted /\ BackendError # NilErr) =>
        /\ result = BackendError
        /\ Len(calls) = 1
        /\ BackendCaptured = <<>> => out = <<>>
        /\ BackendCaptured # <<>> =>
              /\ OneWrite
              /\ Len(WrittenLines) = Len(BackendCaptured)
              /\ \A i \in 1..Len(BackendCaptured) :
                    (/\ ~Contains(BackendCaptured[i], strDeployingProject)
                     /\ ~Contains(BackendCaptured[i], strDeployedActions))
                    => WrittenLines[i] = BackendCaptured[i]

C1_Witness ==
    /\ DeployExecuted
    /\ BackendError # NilErr
    /\ Len(BackendCaptured) = 2
    /\ OneWrite
    /\ ~out[1].ok
    /\ result = BackendError

(* C2 as stated: every captured line of a non-empty transcript that contains
   "Deployed actions" is shown as the fixed branded string, whatever else the
   line contains. *)
C2_Original ==
    TranscriptShown =>
        \A i \in 1..Len(BackendCaptured) :
            Contains(BackendCaptured[i], strDeployedActions)
            => ShownLines[i] = strDeployedFunctions

(* C2, amended: every captured line of a non-empty transcript that contains
   "Deployed actions" and does not contain "Deploying project" is shown as
   the fixed branded string, whatever the other lines are; a line that
   contains both markers is not branded: only its leftmost "Deploying
   project" is replaced by "Deployed". *)
C2_BrandedUnlessDeploying ==
    TranscriptShown =>
        /\ Len(ShownLines) = Len(BackendCaptured)
        /\ \A i \in 1..Len(BackendCaptured) :
              Contains(BackendCaptured[i], strDeployedActions) =>
                 IF Contains(BackendCaptured[i], strDeployingProject)
                 THEN FirstMarkerReplaced(BackendCaptured[i], ShownLines[i])
                 ELSE ShownLines[i] = strDeployedFunctions

C2_Witness ==
    /\ TranscriptShown
    /\ Len(BackendCaptured) = 2
    /\ BackendCaptured[1] = strDeployedActions \o <<" ","X">>
    /\ BackendCaptured[2] = strDeployingProject \o strDeployedActions
    /\ ShownLines[1] = strDeployedFunctions
    /\ ShownLines[2] = strDeployed \o strDeployedActions

(* C3: every captured line of a non-empty transcript that contains
   "Deploying project" is shown with its leftmost "Deploying project" reading
   "Deployed" and the rest of the line unchanged ("Deploying project X" is
   shown as "Deployed X"), whether the backend returned an error or not. *)
C3_DeployingBecomesDeployed ==
    TranscriptShown =>
        /\ Len(ShownLines) = Len(BackendCaptured)
        /\ \A i \in 1..Len(BackendCaptured) :
              /\ Contains(BackendCaptured[i], strDeployingProject)
                 => FirstMarkerReplaced(BackendCaptured[i], ShownLines[i])
              /\ BackendCaptured[i] = strDeployingProject \o <<" ","X">>
                 => ShownLines[i] = strDeployed \o <<" ","X">>

C3_Witness ==
    /\ TranscriptShown
    /\ BackendError # NilErr
    /\ Len(BackendCaptured) = 2
    /\ BackendCaptured[1] = strDeployingProject \o <<" ","X">>
    /\ BackendCaptured[2] = strDeployingProject \o strDeployingProject
    /\ ShownLines[1] = strDeployed \o <<" ","X">>
    /\ ShownLines[2] = strDeployed \o strDeployingProject

----------------------------------------------------------------------------
(* File system: a function from the paths that exist to their entries.     *)
(* A path is a string with "/" between its elements, relative to the       *)
(* working directory, which always exists.                                 *)

slash == <<"/">>

DirEntry == [dir |-> TRUE, data |-> EmptyStr]
FileEntry(data) == [dir |-> FALSE, data |-> data]

\* filepath.Join of two elements; an empty element is dropped
JoinPath(a, b) ==
    IF a = EmptyStr THEN b ELSE IF b = EmptyStr THEN a ELSE a \o slash \o b

\* p is q or lies under q
IsUnder(p, q) == p = q \/ MatchAt(p, q \o slash, 1)

\* the directory that holds p; the working directory is the empty path
ParentOf(p) ==
    LET cuts == { k \in 1..Len(p) : p[k] = "/" }
    IN  IF cuts = {} THEN EmptyStr
        ELSE SubSeq(p, 1, (CHOOSE k \in cuts : \A j \in cuts : j <= k) - 1)

\* p and the directories above it, the working directory excluded
AncestorsOrSelf(p) ==
    { SubSeq(p, 1, k - 1) : k \in { j \in 2..Len(p) : p[j] = "/" } } \cup { p }

IsDir(f, p) == p = EmptyStr \/ (p \in DOMAIN f /\ f[p].dir)

\* f with entry e at path p
WithEntry(f, p, e) == [q \in (DOMAIN f) \cup {p} |-> IF q = p THEN e ELSE f[q]]

\* f with the paths of set ps made directories
WithDirs(f, ps) == [q \in (DOMAIN f) \cup ps |-> IF q \in ps THEN DirEntry ELSE f[q]]

\* f without the paths of set ps
Without(f, ps) == [q \in (DOMAIN f) \ ps |-> f[q]]

FsErr(op, path) == [kind |-> op, arg |-> path]

\* no fault injected
NoFault == [step |-> "none", k |-> 0, keep |-> {}]

\* os.Stat up to existence: "absent", "present" or a failure of the call
osStat(f, p, fault) ==
    IF fault.step = "stat" THEN FsErr("stat", p)
    ELSE IF p \in DOMAIN f THEN [kind |-> "present", arg |-> p]
    ELSE [kind |-> "absent", arg |-> p]

\* os.RemoveAll: p and everything under it goes; when the call fails the
\* entries of fault.keep stay
osRemoveAll(f, p, fault) ==
    LET gone == { q \in DOMAIN f : IsUnder(q, p) }
    IN  IF fault.step = "remove"
        THEN [fs |-> Without(f, gone \ fault.keep), err |-> FsErr("remove", p)]
        ELSE [fs |-> Without(f, gone), err |-> NilErr]

\* os.MkdirAll: every missing directory down to p is made; it fails when an
\* element of p is a file; a failing call leaves the first fault.k of them
osMkdirAll(f, p, failing, k) ==
    LET chain   == AncestorsOrSelf(p)
        missing == { q \in chain : q \notin DOMAIN f }
        made    == { q \in missing :
                       Cardinality({ r \in missing : Len(r) < Len(q) }) < k }
    IN  IF \E q \in chain : q \in DOMAIN f /\ ~f[q].dir
        THEN [fs |-> f, err |-> FsErr("mkdir", p)]
        ELSE IF failing /\ missing # {}
        THEN [fs |-> WithDirs(f, made \ {p}), err |-> FsErr("mkdir", p)]
        ELSE IF failing
        THEN [fs |-> f, err |-> FsErr("mkdir", p)]
        ELSE [fs |-> WithDirs(f, missing), err |-> NilErr]

\* os.Mkdir: the parent must be a directory and p must not exist
osMkdir(f, p, failing) ==
    IF failing \/ ~IsDir(f, ParentOf(p)) \/ p \in DOMAIN f
    THEN [fs |-> f, err |-> FsErr("mkdir", p)]
    ELSE [fs |-> WithEntry(f, p, DirEntry), err |-> NilErr]

\* os.WriteFile: creates or truncates p and writes data; a failing call may
\* leave the file created or truncated and empty (fault.k = 1)
osWriteFile(f, p, data, failing, k) ==
    IF ~IsDir(f, ParentOf(p)) \/ IsDir(f, p)
    THEN [fs |-> f, err |-> FsErr("write", p)]
    ELSE IF failing
    THEN [fs |-> IF k = 1 THEN WithEntry(f, p, FileEntry(EmptyStr)) ELSE f,
          err |-> FsErr("write", p)]
    ELSE [fs |-> WithEntry(f, p, FileEntry(data)), err |-> NilErr]

writeAFile_CleansUp(f, path, contents, fault, step) ==
    With(osWriteFile(f, path, contents, fault.step = step, fault.k), LAMBDA w :
        IF w.err = NilErr THEN w
        ELSE [fs  |-> Without(w.fs, { q \in DOMAIN w.fs : IsUnder(q, ParentOf(path)) }),
              err |-> w.err])

\* writeAFile: os.WriteFile(path, contents, 0600)
writeAFile(f, path, contents, fault, step) ==
    osWriteFile(f, path, contents, fault.step = step, fault.k)

doMkdir(f, path, parents, fault, step) ==
    IF parents THEN osMkdirAll(f, path, fault.step = step, fault.k)
    ELSE osMkdir(f, path, fault.step = step)

----------------------------------------------------------------------------
(* Language resolver.                                                      *)

strNodejs == <<"n","o","d","e","j","s">>
strPython == <<"p","y","t","h","o","n">>
strGo == <<"g","o">>
strPhp == <<"p","h","p">>
strJavascript == <<"j","a","v","a","s","c","r","i","p","t">>
strJs == <<"j","s">>
strTypescript == <<"t","y","p","e","s","c","r","i","p","t">>
strTs == <<"t","s">>
strPy == <<"p","y">>
strGolang == <<"g","o","l","a","n","g">>
strColonDefault == <<":","d","e","f","a","u","l","t">>
colon == <<":">>

upperLetters == <<"A","B","C","D","E","F","G","H","I","J","K","L","M","N","O","P","Q","R","S","T","U","V","W","X","Y","Z">>
lowerLetters == <<"a","b","c","d","e","f","g","h","i","j","k","l","m","n","o","p","q","r","s","t","u","v","w","x","y","z">>

\* strings.ToLower on ASCII text
ToLower(s) ==
    [i \in 1..Len(s) |->
        IF \E k \in 1..Len(upperLetters) : upperLetters[k] = s[i]
        THEN lowerLetters[CHOOSE k \in 1..Len(upperLetters) : upperLetters[k] = s[i]]
        ELSE s[i]]

\* the language table: each runtime with the keywords that select it
languageKeywords ==
    << [runtime |-> strNodejs, kwds |-> <<strJavascript, strJs, strTypescript, strTs>>],
       [runtime |-> strPython, kwds |-> <<strPython, strPy>>],
       [runtime |-> strGo,     kwds |-> <<strGo, strGolang>>],
       [runtime |-> strPhp,    kwds |-> <<strPhp>>] >>

\* the sample source text of a language keyword
samples(language) == <<"/","/"," ","s","a","m","p","l","e"," ","f","o","r"," ">> \o language \o newline

RemoteErr == [kind |-> "remote", arg |-> EmptyStr]

\* a call to the functions host and the error it returned
RemoteCall(fn, ok) ==
    Call(fn, "", <<>>, <<>>, <<>>, <<>>, IF ok THEN NilErr ELSE RemoteErr)

validateRuntime_Strict(runtime, h) ==
    LET status == RemoteCall("CheckServerlessStatus", h.statusOk)
        creds  == RemoteCall("ReadCredentials", h.credsOk)
        info   == RemoteCall("GetHostInfo", h.infoOk)
    IN  IF runtime = strNodejs THEN [ok |-> TRUE, calls |-> <<>>]
        ELSE IF ~h.statusOk THEN [ok |-> FALSE, calls |-> <<status>>]
        ELSE IF ~h.credsOk THEN [ok |-> FALSE, calls |-> <<status, creds>>]
        ELSE IF ~h.infoOk THEN [ok |-> FALSE, calls |-> <<status, creds, info>>]
        ELSE [ok |-> runtime \in h.runtimes, calls |-> <<status, creds, info>>]

validateRuntime_NoShortCircuit(runtime, h) ==
    LET status == RemoteCall("CheckServerlessStatus", h.statusOk)
        creds  == RemoteCall("ReadCredentials", h.credsOk)
        info   == RemoteCall("GetHostInfo", h.infoOk)
    IN  IF ~h.statusOk THEN [ok |-> TRUE, calls |-> <<status>>]
        ELSE IF ~h.credsOk THEN [ok |-> TRUE, calls |-> <<status, creds>>]
        ELSE IF ~h.infoOk THEN [ok |-> TRUE, calls |-> <<status, creds, info>>]
        ELSE [ok |-> runtime \in h.runtimes, calls |-> <<status, creds, info>>]

\* whether the runtime is accepted, and the calls made to find out
validateRuntime(runtime, h) ==
    LET status == RemoteCall("CheckServerlessStatus", h.statusOk)
        creds  == RemoteCall("ReadCredentials", h.credsOk)
        info   == RemoteCall("GetHostInfo", h.infoOk)
    IN  IF runtime = strNodejs THEN [ok |-> TRUE, calls |-> <<>>]
        ELSE IF ~h.statusOk THEN [ok |-> TRUE, calls |-> <<status>>]
        ELSE IF ~h.credsOk THEN [ok |-> TRUE, calls |-> <<status, creds>>]
        ELSE IF ~h.infoOk THEN [ok |-> TRUE, calls |-> <<status, creds, info>>]
        ELSE [ok |-> runtime \in h.runtimes, calls |-> <<status, creds, info>>]

\* the runtimes whose keyword list holds the language
MatchingRuntimes(language) ==
    { languageKeywords[i].runtime : i \in
        { j \in 1..Len(languageKeywords) :
            \E n \in 1..Len(languageKeywords[j].kwds) :
                languageKeywords[j].kwds[n] = language } }

\* isValidLanguage; the table is a Go map, ranged over in no fixed order:
\* 'runtime' is the entry the loop meets first among those that match
isValidLanguage(language, runtime, h) ==
    IF MatchingRuntimes(language) = {} THEN [ok |-> FALSE, calls |-> <<>>]
    ELSE validateRuntime(runtime, h)

UnsupportedLanguageErr(language) == [kind |-> "unsupported-language", arg |-> language]

languageToKindAndSample_CaseSensitive(lang, matched, h) ==
    LET language == lang
        valid    == isValidLanguage(language, matched, h)
        ts       == language \in {strTs, strTypescript}
        runtime  == IF language \in {strTs, strTypescript, strJs, strJavascript} THEN strNodejs
                    ELSE IF language = strPy THEN strPython
                    ELSE IF language = strGolang THEN strGo
                    ELSE language
    IN  IF ~valid.ok
        THEN [kind |-> EmptyStr, sample |-> EmptyStr, ts |-> FALSE,
              err |-> UnsupportedLanguageErr(language), calls |-> valid.calls]
        ELSE [kind |-> runtime \o strColonDefault, sample |-> samples(language),
              ts |-> ts, err |-> NilErr, calls |-> valid.calls]

languageToKindAndSample_TsForNodejs(lang, matched, h) ==
    LET language == ToLower(lang)
        valid    == isValidLanguage(language, matched, h)
        ts       == language \in {strTs, strTypescript, strJs, strJavascript}
        runtime  == IF language \in {strTs, strTypescript, strJs, strJavascript} THEN strNodejs
                    ELSE IF language = strPy THEN strPython
                    ELSE IF language = strGolang THEN strGo
                    ELSE language
    IN  IF ~valid.ok
        THEN [kind |-> EmptyStr, sample |-> EmptyStr, ts |-> FALSE,
              err |-> UnsupportedLanguageErr(language), calls |-> valid.calls]
        ELSE [kind |-> runtime \o strColonDefault, sample |-> samples(language),
              ts |-> ts, err |-> NilErr, calls |-> valid.calls]

languageToKindAndSample_NoAliasSwitch(lang, matched, h) ==
    LET language == ToLower(lang)
        valid    == isValidLanguage(language, matched, h)
        ts       == language \in {strTs, strTypescript}
        runtime  == IF language \in {strTs, strTypescript, strJs, strJavascript} THEN strNodejs
                    ELSE language
    IN  IF ~valid.ok
        THEN [kind |-> EmptyStr, sample |-> EmptyStr, ts |-> FALSE,
              err |-> UnsupportedLanguageErr(language), calls |-> valid.calls]
        ELSE [kind |-> runtime \o strColonDefault, sample |-> samples(language),
              ts |-> ts, err |-> NilErr, calls |-> valid.calls]

\* languageToKindAndSample: kind, sample, typescript flag and error, with
\* the calls made to the host
languageToKindAndSample(lang, matched, h) ==
    LET language == ToLower(lang)
        valid    == isValidLanguage(language, matched, h)
        ts       == language \in {strTs, strTypescript}
        runtime  == IF language \in {strTs, strTypescript, strJs, strJavascript} THEN strNodejs
                    ELSE IF language = strPy THEN strPython
                    ELSE IF language = strGolang THEN strGo
                    ELSE language
    IN  IF ~valid.ok
        THEN [kind |-> EmptyStr, sample |-> EmptyStr, ts |-> FALSE,
              err |-> UnsupportedLanguageErr(language), calls |-> valid.calls]
        ELSE [kind |-> runtime \o strColonDefault, sample |-> samples(language),
              ts |-> ts, err |-> NilErr, calls |-> valid.calls]

----------------------------------------------------------------------------
(* Project spec model and its serialization.                               *)

strSample == <<"s","a","m","p","l","e">>
strHello == <<"h","e","l","l","o">>

configTemplate_TwoPackages ==
    [packages |-> << [name |-> <<"d","e","f","a","u","l","t">>, functions |-> <<>>],
                     [name |-> strSample, functions |-> <<>>] >>]

configTemplate_NoSample ==
    [packages |-> << [name |-> <<"d","e","f","a","u","l","t">>, functions |-> <<>>] >>]

\* configTemplate: one package named "sample" with no functions yet
configTemplate == [packages |-> << [name |-> strSample, functions |-> <<>>] >>]

boolText(b) == IF b THEN <<"t","r","u","e">> ELSE <<"f","a","l","s","e">>

marshalFunction(fn) ==
    <<" "," ","-"," ","n","a","m","e",":"," ">> \o fn.name \o newline
    \o <<" "," "," "," ","r","u","n","t","i","m","e",":"," ">> \o fn.runtime \o newline
    \o <<" "," "," "," ","w","e","b",":"," ">> \o boolText(fn.web) \o newline
    \o <<" "," "," "," ","w","e","b","S","e","c","u","r","e",":"," ">> \o boolText(fn.webSecure) \o newline

RECURSIVE marshalFunctions(_)
marshalFunctions(fns) ==
    IF fns = <<>> THEN EmptyStr
    ELSE marshalFunction(Head(fns)) \o marshalFunctions(Tail(fns))

marshalPackage(pkg) ==
    <<"-"," ","n","a","m","e",":"," ">> \o pkg.name \o newline
    \o (IF pkg.functions = <<>> THEN <<" "," ","f","u","n","c","t","i","o","n","s",":"," ","[","]">> \o newline
        ELSE <<" "," ","f","u","n","c","t","i","o","n","s",":">> \o newline \o marshalFunctions(pkg.functions))

RECURSIVE marshalPackages(_)
marshalPackages(pkgs) ==
    IF pkgs = <<>> THEN EmptyStr
    ELSE marshalPackage(Head(pkgs)) \o marshalPackages(Tail(pkgs))

\* yaml.Marshal(&config): the text of project.yml
yamlMarshal(config) ==
    IF config.packages = <<>> THEN <<"p","a","c","k","a","g","e","s",":"," ","[","]">> \o newline
    ELSE <<"p","a","c","k","a","g","e","s",":">> \o newline \o marshalPackages(config.packages)

----------------------------------------------------------------------------
(* Project scaffolder: serverless init.                                    *)

strProjectYml == <<"p","r","o","j","e","c","t",".","y","m","l">>
strGitignore == <<".","g","i","t","i","g","n","o","r","e">>
strPackages == <<"p","a","c","k","a","g","e","s">>
strSrc == <<"s","r","c">>
strHelloDot == <<"h","e","l","l","o",".">>
strPackageJson == <<"p","a","c","k","a","g","e",".","j","s","o","n">>
strTsconfigJson == <<"t","s","c","o","n","f","i","g",".","j","s","o","n">>
strDotInclude == <<".","i","n","c","l","u","d","e">>
strLib == <<"l","i","b","\n">>

\* the texts written verbatim into the project
gitignores == <<".","d","e","p","l","o","y","e","d","\n">>
ignoreForTypescript == <<"n","o","d","e","_","m","o","d","u","l","e","s","\n","l","i","b","\n">>
packageJSONForTypescript == <<"{","\"","m","a","i","n","\"",":"," ","\"","l","i","b","/","h","e","l","l","o",".","j","s","\"","}","\n">>
tsconfigJSON == <<"{","\"","o","u","t","D","i","r","\"",":"," ","\"","l","i","b","\"","}","\n">>

AlreadyExistsErr(project) == [kind |-> "already-exists", arg |-> project]

\* the panic of a nil pointer dereference
PanicErr == [kind |-> "panic", arg |-> EmptyStr]

InternalErr == [kind |-> "internal", arg |-> EmptyStr]

\* the informational success message
successMessage(project) ==
    <<"A"," ","l","o","c","a","l"," ","f","u","n","c","t","i","o","n","s"," ","p","r","o","j","e","c","t"," ","d","i","r","e","c","t","o","r","y"," ","'">> \o project \o <<"'"," ","w","a","s"," ","c","r","e","a","t","e","d"," ","f","o","r"," ","y","o","u",".","\n","Y","o","u"," ","m","a","y"," ","d","e","p","l","o","y"," ","i","t"," ","b","y"," ","r","u","n","n","i","n","g"," ","t","h","e"," ","c","o","m","m","a","n","d"," ","s","h","o","w","n"," ","o","n"," ","t","h","e"," ","n","e","x","t"," ","l","i","n","e",":","\n"," "," ","d","o","c","t","l"," ","s","e","r","v","e","r","l","e","s","s"," ","d","e","p","l","o","y"," ">> \o project \o newline

prepareProjectArea_RemoveAlways(f, project, overwrite, fault) ==
    LET st == osStat(f, project, fault)
    IN  IF st.kind = "absent" THEN [fs |-> f, err |-> NilErr]
        ELSE IF st.kind = "stat" THEN [fs |-> f, err |-> st]
        ELSE IF ~overwrite
        THEN [fs |-> osRemoveAll(f, project, fault).fs, err |-> AlreadyExistsErr(project)]
        ELSE osRemoveAll(f, project, fault)

prepareProjectArea_KeepOnOverwrite(f, project, overwrite, fault) ==
    LET st == osStat(f, project, fault)
    IN  IF st.kind = "absent" THEN [fs |-> f, err |-> NilErr]
        ELSE IF st.kind = "stat" THEN [fs |-> f, err |-> st]
        ELSE IF ~overwrite THEN [fs |-> f, err |-> AlreadyExistsErr(project)]
        ELSE [fs |-> f, err |-> NilErr]

\* prepareProjectArea: the area is absent, or overwrite allows its removal
prepareProjectArea(f, project, overwrite, fault) ==
    LET st == osStat(f, project, fault)
    IN  IF st.kind = "absent" THEN [fs |-> f, err |-> NilErr]
        ELSE IF st.kind = "stat" THEN [fs |-> f, err |-> st]
        ELSE IF ~overwrite THEN [fs |-> f, err |-> AlreadyExistsErr(project)]
        ELSE osRemoveAll(f, project, fault)

fileExtensionForRuntime_Identity(runtime) == runtime

\* fileExtensionForRuntime: the suffix of a runtime's source files
fileExtensionForRuntime(runtime) ==
    IF runtime = strNodejs THEN strJs
    ELSE IF runtime = strPython THEN strPy
    ELSE runtime

\* the first package of the config named "sample"; 0 when there is none
samplePackageIndex(config) ==
    LET hits == { i \in 1..Len(config.packages) : config.packages[i].name = strSample }
    IN  IF hits = {} THEN 0 ELSE CHOOSE i \in hits : \A j \in hits : i <= j

generateSample_NoSrcDir(kind, config, sample, samplePackage, ts, f, fault) ==
    LET runtime   == Split(kind, colon)[1]
        suffix    == IF ts THEN strTs ELSE fileExtensionForRuntime(runtime)
        actionDir == JoinPath(samplePackage, strHello)
        srcDir    == JoinPath(actionDir, strSrc)
        file      == JoinPath(actionDir, strHelloDot \o suffix)
        function  == [name |-> strHello, runtime |-> kind, web |-> TRUE, webSecure |-> FALSE]
        failed(st, e) == [fs |-> st, err |-> e, actionDir |-> EmptyStr, config |-> config]
    IN  With(doMkdir(f, actionDir, TRUE, fault, "mkdir-action"), LAMBDA m1 :
        IF m1.err # NilErr THEN failed(m1.fs, m1.err) ELSE
        With(IF ts THEN doMkdir(m1.fs, srcDir, FALSE, fault, "mkdir-src") ELSE m1, LAMBDA m2 :
        IF m2.err # NilErr THEN failed(m2.fs, m2.err) ELSE
        With(writeAFile(m2.fs, file, sample, fault, "write-sample"), LAMBDA w :
        IF w.err # NilErr THEN failed(w.fs, w.err) ELSE
        With(samplePackageIndex(config), LAMBDA idx :
        IF idx = 0 THEN failed(w.fs, PanicErr)
        ELSE IF config.packages[idx].name # strSample THEN failed(w.fs, InternalErr)
        ELSE [fs |-> w.fs, err |-> NilErr, actionDir |-> actionDir,
              config |-> [config EXCEPT !.packages[idx].functions = <<function>>]]))))

\* generateSample: the action directory, the config with the function
\* registered, the file system and the error
generateSample(kind, config, sample, samplePackage, ts, f, fault) ==
    LET runtime   == Split(kind, colon)[1]
        suffix    == IF ts THEN strTs ELSE fileExtensionForRuntime(runtime)
        actionDir == JoinPath(samplePackage, strHello)
        srcDir    == JoinPath(actionDir, strSrc)
        file      == IF ts THEN JoinPath(srcDir, strHelloDot \o suffix)
                     ELSE JoinPath(actionDir, strHelloDot \o suffix)
        function  == [name |-> strHello, runtime |-> kind, web |-> TRUE, webSecure |-> FALSE]
        failed(st, e) == [fs |-> st, err |-> e, actionDir |-> EmptyStr, config |-> config]
    IN  With(doMkdir(f, actionDir, TRUE, fault, "mkdir-action"), LAMBDA m1 :
        IF m1.err # NilErr THEN failed(m1.fs, m1.err) ELSE
        With(IF ts THEN doMkdir(m1.fs, srcDir, FALSE, fault, "mkdir-src") ELSE m1, LAMBDA m2 :
        IF m2.err # NilErr THEN failed(m2.fs, m2.err) ELSE
        With(writeAFile(m2.fs, file, sample, fault, "write-sample"), LAMBDA w :
        IF w.err # NilErr THEN failed(w.fs, w.err) ELSE
        With(samplePackageIndex(config), LAMBDA idx :
        IF idx = 0 THEN failed(w.fs, PanicErr)
        ELSE IF config.packages[idx].name # strSample THEN failed(w.fs, InternalErr)
        ELSE [fs |-> w.fs, err |-> NilErr, actionDir |-> actionDir,
              config |-> [config EXCEPT !.packages[idx].functions = <<function>>]]))))

runCreate_PrepareFirst(f, a, d, h, matched, fault) ==
    LET project       == a[1]
        overwrite     == d.overwrite
        config        == configTemplate
        configFile    == JoinPath(project, strProjectYml)
        gitignoreFile == JoinPath(project, strGitignore)
        samplePackage == JoinPath(JoinPath(project, strPackages), strSample)
        ret(st, e, c) == [fs |-> st, result |-> e, out |-> <<>>, calls |-> c]
        done(st, c)   == [fs |-> st, result |-> NilErr, calls |-> c,
                          out |-> <<[data |-> successMessage(project),
                                     ok |-> fault.step # "print"]>>]
    IN  IF ensureOneArg(a) # NilErr THEN ret(f, ensureOneArg(a), <<>>) ELSE
        With(prepareProjectArea(f, project, overwrite, fault), LAMBDA prep :
        IF prep.err # NilErr THEN ret(prep.fs, prep.err, <<>>) ELSE
        With(languageToKindAndSample(d.language, matched, h), LAMBDA lang :
        IF lang.err # NilErr THEN ret(prep.fs, lang.err, lang.calls) ELSE
        With(doMkdir(prep.fs, samplePackage, TRUE, fault, "mkdir-package"), LAMBDA mk :
        IF mk.err # NilErr THEN ret(mk.fs, mk.err, lang.calls) ELSE
        With(generateSample(lang.kind, config, lang.sample, samplePackage, lang.ts,
                            mk.fs, fault), LAMBDA gen :
        IF gen.err # NilErr THEN ret(gen.fs, gen.err, lang.calls) ELSE
        With(writeAFile(gen.fs, configFile, yamlMarshal(gen.config), fault,
                        "write-config"), LAMBDA wConfig :
        IF wConfig.err # NilErr THEN ret(wConfig.fs, wConfig.err, lang.calls) ELSE
        With(writeAFile(wConfig.fs, gitignoreFile,
                        IF lang.ts THEN gitignores \o ignoreForTypescript ELSE gitignores,
                        fault, "write-gitignore"), LAMBDA wIgnore :
        IF wIgnore.err # NilErr THEN ret(wIgnore.fs, wIgnore.err, lang.calls)
        ELSE IF ~lang.ts THEN done(wIgnore.fs, lang.calls) ELSE
        With(writeAFile(wIgnore.fs, JoinPath(gen.actionDir, strPackageJson),
                        packageJSONForTypescript, fault, "write-package-json"), LAMBDA wPj :
        IF wPj.err # NilErr THEN ret(wPj.fs, wPj.err, lang.calls) ELSE
        With(writeAFile(wPj.fs, JoinPath(gen.actionDir, strTsconfigJson),
                        tsconfigJSON, fault, "write-tsconfig"), LAMBDA wTsc :
        IF wTsc.err # NilErr THEN ret(wTsc.fs, wTsc.err, lang.calls) ELSE
        With(writeAFile(wTsc.fs, JoinPath(gen.actionDir, strDotInclude),
                        strLib, fault, "write-include"), LAMBDA wInc :
        IF wInc.err # NilErr THEN ret(wInc.fs, wInc.err, lang.calls)
        ELSE done(wInc.fs, lang.calls))))))))))

\* RunServerlessExtraCreate: the file system it leaves, the error it
\* returns, what it writes to c.Out and the calls it makes
runCreate(f, a, d, h, matched, fault) ==
    LET project       == a[1]
        overwrite     == d.overwrite
        config        == configTemplate
        configFile    == JoinPath(project, strProjectYml)
        gitignoreFile == JoinPath(project, strGitignore)
        samplePackage == JoinPath(JoinPath(project, strPackages), strSample)
        ret(st, e, c) == [fs |-> st, result |-> e, out |-> <<>>, calls |-> c]
        done(st, c)   == [fs |-> st, result |-> NilErr, calls |-> c,
                          out |-> <<[data |-> successMessage(project),
                                     ok |-> fault.step # "print"]>>]
    IN  IF ensureOneArg(a) # NilErr THEN ret(f, ensureOneArg(a), <<>>) ELSE
        With(languageToKindAndSample(d.language, matched, h), LAMBDA lang :
        IF lang.err # NilErr THEN ret(f, lang.err, lang.calls) ELSE
        With(prepareProjectArea(f, project, overwrite, fault), LAMBDA prep :
        IF prep.err # NilErr THEN ret(prep.fs, prep.err, lang.calls) ELSE
        With(doMkdir(prep.fs, samplePackage, TRUE, fault, "mkdir-package"), LAMBDA mk :
        IF mk.err # NilErr THEN ret(mk.fs, mk.err, lang.calls) ELSE
        With(generateSample(lang.kind, config, lang.sample, samplePackage, lang.ts,
                            mk.fs, fault), LAMBDA gen :
        IF gen.err # NilErr THEN ret(gen.fs, gen.err, lang.calls) ELSE
        With(writeAFile(gen.fs, configFile, yamlMarshal(gen.config), fault,
                        "write-config"), LAMBDA wConfig :
        IF wConfig.err # NilErr THEN ret(wConfig.fs, wConfig.err, lang.calls) ELSE
        With(writeAFile(wConfig.fs, gitignoreFile,
                        IF lang.ts THEN gitignores \o ignoreForTypescript ELSE gitignores,
                        fault, "write-gitignore"), LAMBDA wIgnore :
        IF wIgnore.err # NilErr THEN ret(wIgnore.fs, wIgnore.err, lang.calls)
        ELSE IF ~lang.ts THEN done(wIgnore.fs, lang.calls) ELSE
        With(writeAFile(wIgnore.fs, JoinPath(gen.actionDir, strPackageJson),
                        packageJSONForTypescript, fault, "write-package-json"), LAMBDA wPj :
        IF wPj.err # NilErr THEN ret(wPj.fs, wPj.err, lang.calls) ELSE
        With(writeAFile(wPj.fs, JoinPath(gen.actionDir, strTsconfigJson),
                        tsconfigJSON, fault, "write-tsconfig"), LAMBDA wTsc :
        IF wTsc.err # NilErr THEN ret(wTsc.fs, wTsc.err, lang.calls) ELSE
        With(writeAFile(wTsc.fs, JoinPath(gen.actionDir, strDotInclude),
                        strLib, fault, "write-include"), LAMBDA wInc :
        IF wInc.err # NilErr THEN ret(wInc.fs, wInc.err, lang.calls)
        ELSE done(wInc.fs, lang.calls))))))))))

----------------------------------------------------------------------------
(* Inputs of init.                                                         *)

strOldTxt == <<"o","l","d",".","t","x","t">>
strMine == <<"m","i","n","e">>
strCobol == <<"c","o","b","o","l">>

\* the options of an init that was given no flag
DefaultInitFlags == [overwrite |-> FALSE, language |-> strJavascript]

\* the project area before the invocation: absent; an empty directory; a
\* directory with files of the user's; a regular file; the project that an
\* earlier 'init proj' left
InitialTrees ==
    { EmptyFs,
      WithDirs(EmptyFs, {strProj}),
      WithEntry(WithEntry(WithDirs(EmptyFs,
          {strProj, JoinPath(strProj, strPackages)}),
          JoinPath(strProj, strOldTxt), FileEntry(strMine)),
          JoinPath(JoinPath(strProj, strPackages), strMine), FileEntry(strMine)),
      WithEntry(EmptyFs, strProj, FileEntry(strMine)),
      runCreate(EmptyFs, <<strProj>>, DefaultInitFlags, NoHost, strNodejs, NoFault).fs }

\* the language tokens a user may pass
LanguageTokens ==
    { strJavascript, strJs, <<"J","S">>, strTs, <<"T","y","p","e","S","c","r","i","p","t">>, strPython, <<"P","y">>,
      strGo, strGolang, strPhp, strCobol, EmptyStr }

CreateArgs == { <<>>, <<strProj>>, <<strOther>>, <<strProj, strOther>> }

HostRuntimes == { strNodejs, strPython, strGo }

\* the host answers every call and lists some runtimes, or a call fails
HostStates ==
    { [statusOk |-> TRUE, credsOk |-> TRUE, infoOk |-> TRUE, runtimes |-> r] :
        r \in SUBSET HostRuntimes }
    \cup
    { [statusOk |-> s, credsOk |-> c, infoOk |-> i, runtimes |-> HostRuntimes] :
        s \in BOOLEAN, c \in BOOLEAN, i \in BOOLEAN }

\* the steps of init that touch the file system or the output stream
MkdirAllSteps == { "mkdir-package" }
WriteSteps ==
    { "write-sample", "write-config", "write-gitignore", "write-package-json",
      "write-tsconfig", "write-include" }
OtherSteps == { "stat", "mkdir-action", "mkdir-src", "print" }

\* what remains of the area when its removal fails: a non-empty part of it
\* that holds the directories above each of its entries
KeepSets(f, project) ==
    LET under == { q \in DOMAIN f : IsUnder(q, project) }
    IN  { K \in SUBSET under :
            /\ K # {}
            /\ \A q \in K : \A r \in under : IsUnder(q, r) => r \in K }

\* the faults of one run: none, or one failing step
Faults(f, a) ==
    { NoFault }
    \cup { [step |-> st, k |-> 0, keep |-> {}] : st \in OtherSteps }
    \cup { [step |-> st, k |-> k, keep |-> {}] : st \in MkdirAllSteps, k \in 0..2 }
    \cup { [step |-> st, k |-> k, keep |-> {}] : st \in WriteSteps, k \in 0..1 }
    \cup (IF Len(a) = 1
          THEN { [step |-> "remove", k |-> 0, keep |-> K] : K \in KeepSets(f, a[1]) }
          ELSE {})

InitCreate ==
    /\ pc = "start"
    /\ cmd = "none"
    /\ args \in CreateArgs
    /\ doit \in [overwrite : BOOLEAN, language : LanguageTokens]
    /\ fs \in InitialTrees
    /\ given = [doit |-> doit, fs |-> fs]
    /\ result = NoResult
    /\ out = <<>>
    /\ calls = <<>>
    /\ host \in HostStates

\* one run of 'serverless init'; which step fails, if any, and which table
\* entry the lookup meets first are the environment's
RunServerlessExtraCreate ==
    /\ pc = "start"
    /\ pc' = "done"
    /\ cmd' = "init"
    /\ \E fault \in Faults(fs, args),
          matched \in MatchingRuntimes(ToLower(doit.language)) \cup {EmptyStr} :
          /\ matched = EmptyStr <=> MatchingRuntimes(ToLower(doit.language)) = {}
          /\ \E r \in { runCreate(fs, args, doit, host, matched, fault) } :
                 /\ fs' = r.fs
                 /\ result' = r.result
                 /\ out' = r.out
                 /\ calls' = r.calls
    /\ UNCHANGED <<args, doit, given, host>>

NextCreate == RunServerlessExtraCreate

SpecCreate == InitCreate /\ [][NextCreate]_vars

----------------------------------------------------------------------------
(* Claims about init, checked under SpecCreate.                            *)

\* init ran with exactly one positional argument
InitRanOnPath == pc = "done" /\ cmd = "init" /\ Len(args) = 1

\* a and b differ at most in the case of their letters
EqualFold(a, b) ==
    /\ Len(a) = Len(b)
    /\ \A i \in 1..Len(a) :
          \/ a[i] = b[i]
          \/ \E k \in 1..Len(upperLetters) :
                {a[i], b[i]} = {upperLetters[k], lowerLetters[k]}

\* the runtimes under which the table lists the token, letter case aside
RuntimesOfToken(tok) ==
    { languageKeywords[i].runtime : i \in
        { j \in 1..Len(languageKeywords) :
            \E n \in 1..Len(languageKeywords[j].kwds) :
                EqualFold(tok, languageKeywords[j].kwds[n]) } }

\* the host answered every call
HostAnswers == host.statusOk /\ host.credsOk /\ host.infoOk

\* the host answered every call and its runtime set lacks r
HostLacks(r) == HostAnswers /\ r \notin host.runtimes

UnsupportedLanguage == result.kind = "unsupported-language"

\* the language of the invocation is one the resolver accepts
LanguageAccepted ==
    \E r \in RuntimesOfToken(doit.language) : r = strNodejs \/ ~HostLacks(r)

(* C6: with one positional argument, a language token that is in no alias
   list of the language table, letter case aside, makes init fail with the
   "is not a supported language" error, which names the token in lower case;
   a token that is a listed alias up to letter case is treated as the alias:
   it is refused only when the host answers and lacks the alias's runtime. *)
C6_UnlistedLanguageRefused ==
    InitRanOnPath =>
        /\ RuntimesOfToken(doit.language) = {} =>
              /\ UnsupportedLanguage
              /\ EqualFold(result.arg, doit.language)
              /\ \A i \in 1..Len(result.arg) :
                    \A k \in 1..Len(upperLetters) : result.arg[i] # upperLetters[k]
        /\ RuntimesOfToken(doit.language) # {} =>
              (UnsupportedLanguage =>
                  \E r \in RuntimesOfToken(doit.language) : r # strNodejs /\ HostLacks(r))

C6_Witness ==
    /\ InitRanOnPath
    /\ doit.language = strCobol
    /\ result = UnsupportedLanguageErr(strCobol)
    /\ fs = given.fs

(* C7: for a language whose runtime is not nodejs, init refuses the language
   exactly when the status check, the credential read and the host-info
   fetch all succeed and the runtime is not in the runtime set the host
   returned; when one of the three fails the language is accepted, and no
   run of init returns an error of the host's. *)
C7_PermissiveValidation ==
    /\ pc = "done" /\ cmd = "init" => result.kind # "remote"
    /\ InitRanOnPath =>
          \A r \in RuntimesOfToken(doit.language) :
              r # strNodejs =>
                 /\ UnsupportedLanguage <=> HostLacks(r)
                 /\ ~HostAnswers => ~UnsupportedLanguage

C7_Witness ==
    /\ InitRanOnPath
    /\ doit.language = <<"P","y">>
    /\ host.statusOk /\ ~host.credsOk
    /\ Len(calls) = 2
    /\ calls[2].fn = "ReadCredentials" /\ calls[2].err = RemoteErr
    /\ result = NilErr

(* C8: for every alias of the runtime nodejs (js, javascript, ts,
   typescript, in any letter case) init makes no call to the host and does
   not refuse the language, whatever the host would answer, also when the
   host's runtime set lacks nodejs. *)
C8_DefaultRuntimeOffline ==
    InitRanOnPath =>
        (strNodejs \in RuntimesOfToken(doit.language) =>
            /\ calls = <<>>
            /\ ~UnsupportedLanguage)

C8_Witness ==
    /\ InitRanOnPath
    /\ doit.language = <<"T","y","p","e","S","c","r","i","p","t">>
    /\ HostAnswers /\ host.runtimes = {}
    /\ calls = <<>>
    /\ result = NilErr

\* the paths of f that lie strictly under p
Below(f, p) == { q \in DOMAIN f : q # p /\ IsUnder(q, p) }

\* the target of the invocation existed and held entries when init began
TargetPopulated ==
    /\ args[1] \in DOMAIN given.fs
    /\ given.fs[args[1]].dir
    /\ Below(given.fs, args[1]) # {}

(* C9: init without --overwrite on a path that exists and holds files
   leaves the file system exactly as it was and writes no success message;
   when the language is accepted and the existence check itself does not
   fail, the error is the "already exists; use '--overwrite' to replace"
   error naming that path. *)
C9_ConflictLeavesAreaUntouched ==
    (InitRanOnPath /\ ~doit.overwrite /\ TargetPopulated) =>
        /\ fs = given.fs
        /\ out = <<>>
        /\ result # NilErr
        /\ (LanguageAccepted /\ result.kind # "stat")
              => result = AlreadyExistsErr(args[1])

C9_Witness ==
    /\ InitRanOnPath /\ ~doit.overwrite /\ TargetPopulated
    /\ args[1] = strProj
    /\ JoinPath(strProj, strProjectYml) \in DOMAIN given.fs
    /\ result = AlreadyExistsErr(strProj)
    /\ fs = given.fs

\* the target of the invocation was absent or an empty directory
TargetAbsentOrEmpty ==
    \/ args[1] \notin DOMAIN given.fs
    \/ (given.fs[args[1]].dir /\ Below(given.fs, args[1]) = {})

(* C10 as stated: with overwrite false, init fails with the "already exists"
   error only when the target exists and is non-empty; on a target that is
   absent or an empty directory the preparation succeeds. *)
C10_Original ==
    (InitRanOnPath /\ ~doit.overwrite) =>
        /\ result.kind = "already-exists" => ~TargetAbsentOrEmpty
        /\ TargetAbsentOrEmpty => result.kind # "already-exists"

\* the directories and files of the project that init lays out at p for a
\* language token
PackageDirOf(p) == JoinPath(JoinPath(p, strPackages), strSample)
ActionDirOf(p) == JoinPath(PackageDirOf(p), strHello)
SrcDirOf(p) == JoinPath(ActionDirOf(p), strSrc)

TokenIsTypescript(tok) == EqualFold(tok, strTs) \/ EqualFold(tok, strTypescript)

\* the extension of a runtime's source files
ExtensionOf(r) ==
    IF r = strNodejs THEN strJs ELSE IF r = strPython THEN strPy ELSE r

SampleFilesOf(p, tok) ==
    IF TokenIsTypescript(tok)
    THEN { JoinPath(SrcDirOf(p), strHelloDot \o strTs) }
    ELSE { JoinPath(ActionDirOf(p), strHelloDot \o ExtensionOf(r)) :
             r \in RuntimesOfToken(tok) }

ToolingFilesOf(p) ==
    { JoinPath(ActionDirOf(p), strPackageJson),
      JoinPath(ActionDirOf(p), strTsconfigJson),
      JoinPath(ActionDirOf(p), strDotInclude) }

ScaffoldDirs(p, tok) ==
    { p, JoinPath(p, strPackages), PackageDirOf(p), ActionDirOf(p) }
    \cup (IF TokenIsTypescript(tok) THEN { SrcDirOf(p) } ELSE {})

ScaffoldFiles(p, tok) ==
    { JoinPath(p, strProjectYml), JoinPath(p, strGitignore) }
    \cup SampleFilesOf(p, tok)
    \cup (IF TokenIsTypescript(tok) THEN ToolingFilesOf(p) ELSE {})

\* init ran with --overwrite on a path that existed, and returned no error
OverwroteExisting ==
    /\ InitRanOnPath
    /\ doit.overwrite
    /\ args[1] \in DOMAIN given.fs
    /\ result = NilErr

(* C11: after a successful init with --overwrite on a path that existed, the
   entries at and under the path are exactly the directories and files of
   the new scaffold: nothing that was under the path before remains unless
   the scaffold creates it, and every scaffold directory and file is there. *)
C11_OverwriteReplacesContents ==
    OverwroteExisting =>
        /\ { q \in DOMAIN fs : IsUnder(q, args[1]) }
              = ScaffoldDirs(args[1], doit.language) \cup ScaffoldFiles(args[1], doit.language)
        /\ \A q \in ScaffoldDirs(args[1], doit.language) : fs[q].dir
        /\ \A q \in ScaffoldFiles(args[1], doit.language) : ~fs[q].dir
        /\ \A q \in Below(given.fs, args[1]) :
              q \in DOMAIN fs =>
                 q \in ScaffoldDirs(args[1], doit.language)
                          \cup ScaffoldFiles(args[1], doit.language)

C11_Witness ==
    /\ OverwroteExisting
    /\ args[1] = strProj
    /\ doit.language = strPython
    /\ JoinPath(strProj, strOldTxt) \in DOMAIN given.fs
    /\ JoinPath(strProj, strOldTxt) \notin DOMAIN fs
    /\ JoinPath(JoinPath(strProj, strPackages), strMine) \notin DOMAIN fs
    /\ JoinPath(strProj, strProjectYml) \in DOMAIN fs

\* init returned one of its validation errors
ValidationError ==
    /\ pc = "done" /\ cmd = "init"
    /\ result.kind \in {"missing-args", "unsupported-language", "already-exists"}

(* C12: an init that fails with a validation error (an argument count other
   than one, an unsupported or refused language, a path conflict) leaves the
   file system exactly as it found it and prints nothing, also with
   --overwrite on a target that exists; an argument count other than one
   and a refused language always end in such an error. *)
C12_ValidationErrorTouchesNothing ==
    /\ ValidationError => (fs = given.fs /\ out = <<>>)
    /\ (pc = "done" /\ cmd = "init" /\ Len(args) # 1) => result = MissingArgsErr
    /\ (InitRanOnPath /\ ~LanguageAccepted) => UnsupportedLanguage

C12_Witness ==
    /\ InitRanOnPath
    /\ doit.overwrite
    /\ TargetPopulated
    /\ doit.language = strGolang
    /\ HostLacks(strGo)
    /\ result = UnsupportedLanguageErr(strGolang)
    /\ fs = given.fs

\* q is a regular file holding exactly data
FileAt(q, data) == q \in DOMAIN fs /\ fs[q] = FileEntry(data)

AllKeywords ==
    UNION { { languageKeywords[j].kwds[n] : n \in 1..Len(languageKeywords[j].kwds) } :
              j \in 1..Len(languageKeywords) }

\* the alias keywords the token spells, letter case aside
KeywordsOfToken(tok) == { kw \in AllKeywords : EqualFold(tok, kw) }

InitSucceeded == InitRanOnPath /\ result = NilErr

(* C13: a successful init for the language typescript or ts, in any letter
   case, leaves under the path: packages/sample/hello/src/hello.ts holding
   the sample of that keyword; package.json, tsconfig.json and .include in
   packages/sample/hello, .include holding exactly "lib\n"; project.yml; and
   .gitignore holding the base ignores followed by the typescript ignores. *)
C13_TypescriptLayout ==
    (InitSucceeded /\ TokenIsTypescript(doit.language)) =>
        /\ KeywordsOfToken(doit.language) # {}
        /\ \A kw \in KeywordsOfToken(doit.language) :
              FileAt(JoinPath(SrcDirOf(args[1]), strHelloDot \o strTs), samples(kw))
        /\ FileAt(JoinPath(ActionDirOf(args[1]), strPackageJson), packageJSONForTypescript)
        /\ FileAt(JoinPath(ActionDirOf(args[1]), strTsconfigJson), tsconfigJSON)
        /\ FileAt(JoinPath(ActionDirOf(args[1]), strDotInclude), <<"l","i","b","\n">>)
        /\ JoinPath(args[1], strProjectYml) \in DOMAIN fs
        /\ ~fs[JoinPath(args[1], strProjectYml)].dir
        /\ FileAt(JoinPath(args[1], strGitignore), gitignores \o ignoreForTypescript)

C13_Witness ==
    /\ InitSucceeded
    /\ args[1] = strOther
    /\ doit.language = <<"T","y","p","e","S","c","r","i","p","t">>
    /\ FileAt(JoinPath(SrcDirOf(strOther), strHelloDot \o strTs), samples(strTypescript))
    /\ FileAt(JoinPath(ActionDirOf(strOther), strDotInclude), strLib)

(* C14: a successful init for a language other than typescript writes the
   sample of the keyword verbatim to packages/sample/hello/hello.<ext>, ext
   being js for the runtime nodejs, py for python and the runtime's name
   otherwise; the function directory holds nothing else (no src directory,
   no package.json, tsconfig.json or .include) and .gitignore holds only
   the base ignores. *)
C14_PlainLayout ==
    (InitSucceeded /\ ~TokenIsTypescript(doit.language)) =>
        /\ KeywordsOfToken(doit.language) # {}
        /\ RuntimesOfToken(doit.language) # {}
        /\ \A kw \in KeywordsOfToken(doit.language) :
              \A r \in RuntimesOfToken(doit.language) :
                 /\ FileAt(JoinPath(ActionDirOf(args[1]), strHelloDot \o ExtensionOf(r)),
                           samples(kw))
                 /\ Below(fs, ActionDirOf(args[1]))
                       = { JoinPath(ActionDirOf(args[1]), strHelloDot \o ExtensionOf(r)) }
        /\ SrcDirOf(args[1]) \notin DOMAIN fs
        /\ ToolingFilesOf(args[1]) \cap DOMAIN fs = {}
        /\ FileAt(JoinPath(args[1], strGitignore), gitignores)

C14_Witness ==
    /\ InitSucceeded
    /\ args[1] = strProj
    /\ doit.language = strGolang
    /\ FileAt(JoinPath(ActionDirOf(strProj), strHelloDot \o strGo), samples(strGolang))
    /\ JoinPath(ActionDirOf(strProj), strHelloDot \o strJs) \notin DOMAIN fs
    /\ FileAt(JoinPath(strProj, strGitignore), gitignores)

\* the text of a project spec with the single package "sample" owning the
\* single function "hello" of runtime r at the default tag, web and not
\* web-secure
SampleSpecText(r) ==
    <<"p","a","c","k","a","g","e","s",":","\n","-"," ","n","a","m","e",":"," ","s","a","m","p","l","e","\n"," "," ","f","u","n","c","t","i","o","n","s",":","\n"," "," ","-"," ","n","a","m","e",":"," ","h","e","l","l","o","\n"," "," "," "," ","r","u","n","t","i","m","e",":"," ">>
    \o r \o
    <<":","d","e","f","a","u","l","t","\n"," "," "," "," ","w","e","b",":"," ","t","r","u","e","\n"," "," "," "," ","w","e","b","S","e","c","u","r","e",":"," ","f","a","l","s","e","\n">>

\* init got past the preparation of the project area
AreaPrepared == InitRanOnPath /\ result.kind \in {"nil", "mkdir", "write"}

(* C15: the project.yml that init writes always describes exactly one
   package, named "sample", that owns exactly one function, named "hello",
   with runtime "<runtime>:default", web true and webSecure false; a
   successful init has written it. *)
C15_SingleSampleFunction ==
    /\ InitSucceeded => JoinPath(args[1], strProjectYml) \in DOMAIN fs
    /\ (/\ AreaPrepared
        /\ JoinPath(args[1], strProjectYml) \in DOMAIN fs
        /\ result.arg # JoinPath(args[1], strProjectYml)) =>
           /\ RuntimesOfToken(doit.language) # {}
           /\ \A r \in RuntimesOfToken(doit.language) :
                 FileAt(JoinPath(args[1], strProjectYml), SampleSpecText(r))

C15_Witness ==
    /\ InitSucceeded
    /\ args[1] = strProj
    /\ doit.language = <<"P","y">>
    /\ FileAt(JoinPath(strProj, strProjectYml), SampleSpecText(strPython))

\* the tokens that are aliases of the runtime that tok is an alias of
AliasesOf(tok) ==
    { t \in LanguageTokens :
        RuntimesOfToken(t) # {} /\ RuntimesOfToken(t) = RuntimesOfToken(tok) }

\* the paths whose content depends on the alias: the function directory's
\* entries (sample source, src directory, tooling files) and .gitignore,
\* which takes the tooling's ignore entries
AliasDependent(p, q) ==
    \/ (q # ActionDirOf(p) /\ IsUnder(q, ActionDirOf(p)))
    \/ q = JoinPath(p, strGitignore)

(* C16: when init succeeds for a token, the same invocation with any other
   alias of the same runtime (js, javascript, ts, typescript; py, python;
   golang, go; any letter case) succeeds too and writes the identical
   project.yml; the two resulting file systems agree on every path except
   the sample source file and the secondary-tooling artifacts (src
   directory, package.json, tsconfig.json, .include and the tooling's
   ignore entries in .gitignore), and two aliases that are both typescript
   or both not differ in the sample source file's content at most. *)
C16_AliasesAgree ==
    InitSucceeded =>
        \A t \in AliasesOf(doit.language) : \A m \in RuntimesOfToken(t) :
            \A alt \in { runCreate(given.fs, args, [doit EXCEPT !.language = t],
                                   host, m, NoFault) } :
                /\ alt.result = NilErr
                /\ JoinPath(args[1], strProjectYml) \in DOMAIN alt.fs
                /\ FileAt(JoinPath(args[1], strProjectYml),
                          alt.fs[JoinPath(args[1], strProjectYml)].data)
                /\ \A q \in DOMAIN fs \cup DOMAIN alt.fs :
                      ~AliasDependent(args[1], q) =>
                          /\ q \in DOMAIN fs /\ q \in DOMAIN alt.fs
                          /\ fs[q] = alt.fs[q]
                /\ (TokenIsTypescript(t) <=> TokenIsTypescript(doit.language)) =>
                      /\ DOMAIN fs = DOMAIN alt.fs
                      /\ \A q \in DOMAIN fs :
                            q \notin SampleFilesOf(args[1], t) => fs[q] = alt.fs[q]

C16_Witness ==
    /\ InitSucceeded
    /\ args[1] = strProj
    /\ doit.language = strGolang
    /\ strGo \in AliasesOf(doit.language)
    /\ FileAt(JoinPath(strProj, strProjectYml), SampleSpecText(strGo))
    /\ FileAt(JoinPath(strProj, strProjectYml),
              runCreate(given.fs, args, [doit EXCEPT !.language = strGo],
                        host, strGo, NoFault).fs[JoinPath(strProj, strProjectYml)].data)

----------------------------------------------------------------------------
(* Watch driver and metadata extractor: serverless watch, get-metadata.    *)

flagJSON == "json"
flagProjectReader == "project-reader"

watchBoolFlags_WithIncremental ==
    <<"insecure", "verbose-build", "verbose-zip", "yarn", "remote-build", "incremental">>

\* the flags that watch forwards to the streaming backend call
watchBoolFlags == <<"insecure", "verbose-build", "verbose-zip", "yarn", "remote-build">>
watchStringFlags == <<"env", "build-env", "apihost", "auth", "include", "exclude">>

\* the flags that get-metadata forwards to the backend call
getMetadataBoolFlags == <<flagJSON, flagProjectReader>>
getMetadataStringFlags == <<"env", flagInclude, flagExclude>>

\* do.ServerlessProject{ProjectPath: path}, every other field zero
ServerlessProject(path) == [ProjectPath |-> path]

\* a call c.Serverless().ReadProject(&project, c.Args), what it returned
ReadProjectCall(project, a, d, output, err) ==
    [fn |-> "ReadProject", op |-> "", bools |-> <<>>, strs |-> <<>>, doit |-> d,
     captured |-> output, err |-> err, project |-> project, args |-> a]

runWatch_NoArgCheck(a, d, streamed, err) ==
    [result |-> err,
     calls  |-> <<Call("RunServerlessExecStreaming", "watch", watchBoolFlags,
                       watchStringFlags, d, streamed, err)>>]

\* RunServerlessExtraWatch after the normalizer: the error it returns and
\* the calls it makes; 'streamed' is what the backend wrote to the terminal
runWatch(a, d, streamed, err) ==
    IF ensureOneArg(a) # NilErr
    THEN [result |-> ensureOneArg(a), calls |-> <<>>]
    ELSE [result |-> err,
          calls  |-> <<Call("RunServerlessExecStreaming", "watch", watchBoolFlags,
                            watchStringFlags, d, streamed, err)>>]

runGetMetadata_AlwaysBackend(a, d, output, err, printErr) ==
    IF ensureOneArg(a) # NilErr
    THEN [result |-> ensureOneArg(a), calls |-> <<>>]
    ELSE With(Call("RunServerlessExec", "get-metadata", getMetadataBoolFlags,
                   getMetadataStringFlags, d, output, err),
         LAMBDA call :
            IF err # NilErr THEN [result |-> err, calls |-> <<call>>]
            ELSE [result |-> printErr,
                  calls  |-> <<call, Call("PrintServerlessTextOutput", "", <<>>, <<>>,
                                          d, output, printErr)>>])

\* RunServerlessExtraGetMetadata after the normalizer: the error it returns
\* and the calls it makes
runGetMetadata(a, d, output, err, printErr) ==
    IF ensureOneArg(a) # NilErr
    THEN [result |-> ensureOneArg(a), calls |-> <<>>]
    ELSE With(IF d[flagProjectReader].val
              THEN ReadProjectCall(ServerlessProject(a[1]), a, d, output, err)
              ELSE Call("RunServerlessExec", "get-metadata", getMetadataBoolFlags,
                        getMetadataStringFlags, d, output, err),
         LAMBDA call :
            IF err # NilErr THEN [result |-> err, calls |-> <<call>>]
            ELSE [result |-> printErr,
                  calls  |-> <<call, Call("PrintServerlessTextOutput", "", <<>>, <<>>,
                                          d, output, printErr)>>])

\* the hidden project-reader flag: given, not given, or its lookup fails
ProjectReaderValues == { FlagSet(TRUE), FlagSet(FALSE), [err |-> TRUE, val |-> FALSE] }

\* the options of a deploy, watch or get-metadata invocation
ExecFlags ==
    { [f \in {flagInclude, flagExclude, flagProjectReader} |->
          IF f = flagProjectReader THEN r ELSE o[f]] :
        o \in [ {flagInclude, flagExclude} -> ExecOptionValues ],
        r \in ProjectReaderValues }

InitExec ==
    /\ pc = "start"
    /\ cmd = "none"
    /\ args \in ExecArgs
    /\ doit \in ExecFlags
    /\ given = [doit |-> doit, fs |-> EmptyFs]
    /\ result = NoResult
    /\ out = <<>>
    /\ calls = <<>>
    /\ fs = EmptyFs
    /\ host = NoHost

RunServerlessExtraWatch_CheckFirst ==
    /\ pc = "start"
    /\ pc' = "done"
    /\ cmd' = "watch"
    /\ doit' = IF ensureOneArg(args) # NilErr THEN doit ELSE adjustIncludeAndExclude(doit)
    /\ \E streamed \in Transcripts, err \in BackendOutcomes :
          \E r \in { runWatch(args, doit', streamed, err) } :
              /\ result' = r.result
              /\ calls' = r.calls
    /\ UNCHANGED <<args, given, out, fs, host>>

\* one run of 'serverless watch'; what the backend streams and the error
\* the streaming call returns are the environment's
RunServerlessExtraWatch ==
    /\ pc = "start"
    /\ pc' = "done"
    /\ cmd' = "watch"
    /\ doit' = adjustIncludeAndExclude(doit)
    /\ \E streamed \in Transcripts, err \in BackendOutcomes :
          \E r \in { runWatch(args, doit', streamed, err) } :
              /\ result' = r.result
              /\ calls' = r.calls
    /\ UNCHANGED <<args, given, out, fs, host>>

\* one run of 'serverless get-metadata'; the answer of the backend or of
\* the project reader and the display call's result are the environment's
RunServerlessExtraGetMetadata ==
    /\ pc = "start"
    /\ pc' = "done"
    /\ cmd' = "get-metadata"
    /\ doit' = adjustIncludeAndExclude(doit)
    /\ \E output \in Transcripts, err \in BackendOutcomes,
          printErr \in {NilErr, DisplayErr} :
          \E r \in { runGetMetadata(args, doit', output, err, printErr) } :
              /\ result' = r.result
              /\ calls' = r.calls
    /\ UNCHANGED <<args, given, out, fs, host>>

NextExec ==
    \/ RunServerlessExtraDeploy
    \/ RunServerlessExtraWatch
    \/ RunServerlessExtraGetMetadata

SpecExec == InitExec /\ [][NextExec]_vars

----------------------------------------------------------------------------
(* Claims about deploy, watch and get-metadata, checked under SpecExec.    *)

\* one of the three commands that take a project directory has returned
ExecCommandDone == pc = "done" /\ cmd \in {"deploy", "watch", "get-metadata"}

\* the calls to the backend and to the project reader
CollaboratorCalls ==
    { i \in 1..Len(calls) :
        calls[i].fn \in {"RunServerlessExec", "RunServerlessExecStreaming", "ReadProject"} }

(* C17: deploy, watch and get-metadata each require exactly one positional
   argument. With none or more than one the command returns the
   missing-arguments error, makes no call at all (no backend call,
   synchronous or streaming, and no call to the project reader) and writes
   nothing; with exactly one it goes on to call a collaborator and never
   returns the missing-arguments error. *)
C17_OneArgumentRequired ==
    ExecCommandDone =>
        /\ Len(args) # 1 =>
              /\ result = MissingArgsErr
              /\ calls = <<>>
              /\ out = <<>>
        /\ Len(args) = 1 =>
              /\ result # MissingArgsErr
              /\ CollaboratorCalls # {}

C17_Witness ==
    /\ pc = "done" /\ cmd = "watch"
    /\ args = <<strProj, strOther>>
    /\ result = MissingArgsErr
    /\ calls = <<>>

\* watch ran with exactly one positional argument
WatchExecuted == pc = "done" /\ cmd = "watch" /\ Len(args) = 1

\* the sequence s without the elements equal to x
Minus(s, x) == SelectSeq(s, LAMBDA e : e # x)

(* C19: watch with one argument makes exactly one call, the streaming
   backend call with the operation "watch"; it forwards deploy's boolean
   allow-list without "incremental" (five flags) and deploy's six string
   options, taken from the options as the normalizer left them; it hands
   no output to the display call and writes none itself, so what the
   backend streams is not rewritten; it returns exactly the error of the
   streaming call. *)
C19_WatchForwardsToStreaming ==
    WatchExecuted =>
        /\ Len(calls) = 1
        /\ calls[1].fn = "RunServerlessExecStreaming"
        /\ calls[1].op = "watch"
        /\ calls[1].bools = Minus(deployBoolFlags, "incremental")
        /\ Len(calls[1].bools) = 5
        /\ calls[1].strs = deployStringFlags
        /\ Len(calls[1].strs) = 6
        /\ calls[1].doit = doit
        /\ out = <<>>
        /\ result = calls[1].err

C19_Witness ==
    /\ WatchExecuted
    /\ calls[1].captured = <<strDeployingProject, strDeployedActions>>
    /\ calls[1].err # NilErr
    /\ result = calls[1].err
    /\ out = <<>>

\* get-metadata ran with exactly one positional argument
GetMetadataExecuted == pc = "done" /\ cmd = "get-metadata" /\ Len(args) = 1

CallsTo(fn) == { i \in 1..Len(calls) : calls[i].fn = fn }

(* C20: get-metadata with one argument takes exactly one of two paths. With
   the project-reader flag set its first call is to the project reader,
   with a descriptor that holds the path argument and nothing else and with
   the raw argument list, and it never calls the backend; with the flag
   unset its first call is the backend operation "get-metadata" and it
   never calls the project reader. On either path an error of that call is
   returned and nothing is rendered; without an error the output the call
   returned is handed unchanged to the one display call, whose result is
   returned. *)
C20_ProjectReaderSelectsPath ==
    GetMetadataExecuted =>
        /\ Len(calls) >= 1
        /\ doit[flagProjectReader].val =>
              /\ calls[1].fn = "ReadProject"
              /\ calls[1].project = [ProjectPath |-> args[1]]
              /\ calls[1].args = args
              /\ CallsTo("RunServerlessExec") = {}
              /\ CallsTo("ReadProject") = {1}
        /\ ~doit[flagProjectReader].val =>
              /\ calls[1].fn = "RunServerlessExec"
              /\ calls[1].op = "get-metadata"
              /\ CallsTo("ReadProject") = {}
              /\ CallsTo("RunServerlessExec") = {1}
        /\ CallsTo("RunServerlessExecStreaming") = {}
        /\ calls[1].err # NilErr =>
              /\ result = calls[1].err
              /\ Len(calls) = 1
        /\ calls[1].err = NilErr =>
              /\ Len(calls) = 2
              /\ calls[2].fn = "PrintServerlessTextOutput"
              /\ calls[2].captured = calls[1].captured
              /\ result = calls[2].err
        /\ out = <<>>

C20_Witness ==
    /\ GetMetadataExecuted
    /\ doit[flagProjectReader] = FlagSet(TRUE)
    /\ calls[1].fn = "ReadProject"
    /\ calls[1].project = ServerlessProject(strProj)
    /\ calls[1].captured = <<strDeployedActions>>
    /\ Len(calls) = 2
    /\ calls[2].captured = <<strDeployedActions>>
    /\ result = NilErr

----------------------------------------------------------------------------
(* Claims about failing steps of init, checked under SpecCreate.           *)

\* the targets of the directory-create and file-write steps of init, in the
\* order the steps run
StepTargets(p, tok) ==
    IF TokenIsTypescript(tok)
    THEN << PackageDirOf(p), ActionDirOf(p), SrcDirOf(p),
            JoinPath(SrcDirOf(p), strHelloDot \o strTs),
            JoinPath(p, strProjectYml), JoinPath(p, strGitignore),
            JoinPath(ActionDirOf(p), strPackageJson),
            JoinPath(ActionDirOf(p), strTsconfigJson),
            JoinPath(ActionDirOf(p), strDotInclude) >>
    ELSE << PackageDirOf(p), ActionDirOf(p),
            CHOOSE q \in SampleFilesOf(p, tok) : TRUE,
            JoinPath(p, strProjectYml), JoinPath(p, strGitignore) >>

\* a directory-create or file-write step of init failed
StepFailed == InitRanOnPath /\ result.kind \in {"mkdir", "write"}

(* C18: when a directory-create or file-write step of init fails, init
   returns the error of that step, naming the step's path; every earlier
   step's directory or file is still there, no later step's is, nothing is
   under the target but entries of the new scaffold (so under --overwrite
   the removed directory is not restored), and no success message is
   written. Over all
   runs of init the success message is written exactly when init returns
   no error, and it is the only thing init writes. *)
C18_StepFailureStopsInit ==
    /\ StepFailed =>
          /\ LanguageAccepted
          /\ \E i \in 1..Len(StepTargets(args[1], doit.language)) :
                /\ result.arg = StepTargets(args[1], doit.language)[i]
                /\ result.kind = "mkdir" => result.arg \notin DOMAIN fs
                /\ \A j \in 1..Len(StepTargets(args[1], doit.language)) :
                      /\ j < i => StepTargets(args[1], doit.language)[j] \in DOMAIN fs
                      /\ j > i => StepTargets(args[1], doit.language)[j] \notin DOMAIN fs
          /\ \A q \in DOMAIN fs :
                IsUnder(q, args[1]) =>
                    q \in ScaffoldDirs(args[1], doit.language)
                             \cup ScaffoldFiles(args[1], doit.language)
          /\ out = <<>>
    /\ (pc = "done" /\ cmd = "init") =>
          /\ out # <<>> <=> result = NilErr
          /\ out # <<>> => (Len(out) = 1 /\ out[1].data = successMessage(args[1]))

C18_Witness ==
    /\ StepFailed
    /\ doit.overwrite
    /\ args[1] = strProj
    /\ JoinPath(strProj, strOldTxt) \in DOMAIN given.fs
    /\ JoinPath(strProj, strOldTxt) \notin DOMAIN fs
    /\ result = FsErr("write", JoinPath(strProj, strProjectYml))
    /\ ActionDirOf(strProj) \in DOMAIN fs
    /\ JoinPath(strProj, strGitignore) \notin DOMAIN fs
    /\ out = <<>>

----------------------------------------------------------------------------
(* generateSample on its own: the function applied to project specs with   *)
(* and without a package named "sample".                                   *)

strDefault == <<"d","e","f","a","u","l","t">>

\* a package of the given name with no functions
EmptyPackage(name) == [name |-> name, functions |-> <<>>]

\* the project specs handed to generateSample: no packages; one package of
\* another name; the template; the sample package after another package;
\* a sample package that already owns a function
SampleConfigs ==
    { [packages |-> <<>>],
      [packages |-> << EmptyPackage(strDefault) >>],
      configTemplate,
      [packages |-> << EmptyPackage(strDefault), EmptyPackage(strSample) >>],
      [packages |-> << [name |-> strSample,
                        functions |-> << [name |-> strOther, runtime |-> strGo \o strColonDefault,
                                          web |-> FALSE, webSecure |-> TRUE] >>] >>] }

\* kind, sample text and typescript flag as languageToKindAndSample yields
\* them for a keyword
SampleLanguages ==
    { [kind |-> strNodejs \o strColonDefault, sample |-> samples(strJs), ts |-> FALSE],
      [kind |-> strNodejs \o strColonDefault, sample |-> samples(strTs), ts |-> TRUE],
      [kind |-> strPython \o strColonDefault, sample |-> samples(strPython), ts |-> FALSE],
      [kind |-> strGo \o strColonDefault, sample |-> samples(strGo), ts |-> FALSE] }

\* the arguments of one call
SampleArgs ==
    { [kind |-> l.kind, config |-> c, sample |-> l.sample,
       samplePackage |-> JoinPath(JoinPath(strProj, strPackages), strSample), ts |-> l.ts] :
        l \in SampleLanguages, c \in SampleConfigs }

\* the file system at the call: empty; the package directory made, as init
\* leaves it; the function directory's place taken by a regular file
SampleTrees ==
    { EmptyFs,
      WithDirs(EmptyFs, { strProj, JoinPath(strProj, strPackages),
                          JoinPath(JoinPath(strProj, strPackages), strSample) }),
      WithEntry(WithDirs(EmptyFs, { strProj, JoinPath(strProj, strPackages),
                                    JoinPath(JoinPath(strProj, strPackages), strSample) }),
                JoinPath(JoinPath(JoinPath(strProj, strPackages), strSample), strHello),
                FileEntry(strMine)) }

\* the faults of one call: none, or one failing step
SampleFaults ==
    { NoFault }
    \cup { [step |-> st, k |-> 0, keep |-> {}] : st \in {"mkdir-action", "mkdir-src"} }
    \cup { [step |-> "write-sample", k |-> k, keep |-> {}] : k \in 0..1 }

InitSample ==
    /\ pc = "start"
    /\ cmd = "none"
    /\ args \in SampleArgs
    /\ doit = DefaultInitFlags
    /\ fs \in SampleTrees
    /\ given = [doit |-> doit, fs |-> fs, args |-> args]
    /\ result = NoResult
    /\ out = <<>>
    /\ calls = <<>>
    /\ host = NoHost

\* one call of generateSample; the config is reached through a pointer, so
\* what the function does to it shows in the caller's argument
GenerateSampleCall ==
    /\ pc = "start"
    /\ pc' = "done"
    /\ cmd' = "generateSample"
    /\ \E fault \in SampleFaults :
          \E r \in { generateSample(args.kind, args.config, args.sample,
                                    args.samplePackage, args.ts, fs, fault) } :
              /\ fs' = r.fs
              /\ result' = [err |-> r.err, actionDir |-> r.actionDir]
              /\ args' = [args EXCEPT !.config = r.config]
    /\ UNCHANGED <<doit, given, out, calls, host>>

NextSample == GenerateSampleCall

SpecSample == InitSample /\ [][NextSample]_vars

----------------------------------------------------------------------------
(* Claims about generateSample, checked under SpecSample.                  *)

\* the config has no package named "sample"
NoSamplePackage(config) ==
    \A i \in 1..Len(config.packages) : config.packages[i].name # strSample

\* generateSample made its directories and wrote the sample file, and so
\* went on to look for the sample package
SampleLookupReached ==
    /\ pc = "done" /\ cmd = "generateSample"
    /\ result.err.kind \notin {"mkdir", "write"}

(* C21 as stated: generateSample, given a project spec that has no package
   named "sample" (a spec with no packages included), returns the "could
   not find sample package in config (internal error)" error as an error
   value, without crashing and without registering the function anywhere. *)
C21_Original ==
    (SampleLookupReached /\ NoSamplePackage(given.args.config)) =>
        /\ result.err = InternalErr
        /\ args.config = given.args.config

(* C22: no run of init, whatever the language, the overwrite flag and the
   outcomes of the file system steps, takes the "sample package absent"
   path of generateSample: init never ends in the internal error nor in
   the crash that stands in its place, and every run that got past the
   sample file's write has registered the function, as project.yml or the
   failure of its write shows. *)
C22_InternalErrorUnreachable ==
    (pc = "done" /\ cmd = "init") =>
        /\ result.kind \notin {"internal", "panic"}
        /\ samplePackageIndex(configTemplate) # 0
        /\ (InitRanOnPath /\ result.kind \in {"nil", "mkdir", "write"}
              /\ JoinPath(args[1], strGitignore) \in DOMAIN fs) =>
                 \E r \in RuntimesOfToken(doit.language) :
                    FileAt(JoinPath(args[1], strProjectYml), SampleSpecText(r))

C22_Witness ==
    /\ InitRanOnPath
    /\ doit.overwrite
    /\ doit.language = strPhp
    /\ result = FsErr("write", JoinPath(args[1], strGitignore))
    /\ FileAt(JoinPath(args[1], strProjectYml), SampleSpecText(strPhp))

----------------------------------------------------------------------------
(* Further claims about the normalizer, checked under SpecNorm.            *)

\* how many elements of s equal x
CountOf(s, x) == Cardinality({ i \in 1..Len(s) : s[i] = x })

NormalizerRan == pc = "done" /\ cmd = "normalize"

(* C23: after one run of the normalizer, whatever the exclude option was,
   its comma-separated tokens hold the bare token "web" exactly once, as
   the last token, and every token "web" the user gave stands there as
   "web/". qualifyWebWithSlash applied to its own output returns it
   unchanged, for the include and the exclude value alike; the exclude
   rewriting is not idempotent: a second run of the normalizer turns the
   appended "web" into "web/" and appends another "web". *)
C23_WebOnceAndLast ==
    NormalizerRan =>
        /\ ~doit[flagExclude].err
        /\ \A t1 \in { Split(doit[flagExclude].val, comma) } :
              /\ t1[Len(t1)] = keywordWeb
              /\ CountOf(t1, keywordWeb) = 1
              /\ Present(given.doit[flagExclude]) =>
                    \A t0 \in { Split(given.doit[flagExclude].val, comma) } :
                        /\ Len(t0) < Len(t1)
                        /\ \A i \in 1..Len(t0) :
                              t0[i] = keywordWeb => t1[i] = webSlash
        /\ \A f \in {flagInclude, flagExclude} :
              ~given.doit[f].err =>
                  qualifyWebWithSlash(qualifyWebWithSlash(given.doit[f].val))
                      = qualifyWebWithSlash(given.doit[f].val)
        /\ adjustIncludeAndExclude(doit)[flagExclude] # doit[flagExclude]
        /\ adjustIncludeAndExclude(doit)[flagExclude].val
              = doit[flagExclude].val \o <<"/">> \o comma \o keywordWeb

C23_Witness ==
    /\ NormalizerRan
    /\ ~given.doit[flagExclude].err
    /\ given.doit[flagExclude].val = <<"w","e","b",",","w","e","b">>
    /\ doit[flagExclude].val = <<"w","e","b","/",",","w","e","b","/",",","w","e","b">>
    /\ qualifyWebWithSlash(doit[flagExclude].val) # doit[flagExclude].val

----------------------------------------------------------------------------
(* Further claims about deploy, checked under SpecDeploy.                  *)

\* the line holds neither marker
Unmarked(line) ==
    ~Contains(line, strDeployingProject) /\ ~Contains(line, strDeployedActions)

\* 'after' is what the rewriting makes of 'line'
Rewritten(line, after) ==
    IF Contains(line, strDeployingProject) THEN FirstMarkerReplaced(line, after)
    ELSE IF Contains(line, strDeployedActions) THEN after = strDeployedFunctions
    ELSE after = line

(* C24: the transcript rewriting of deploy keeps the number and the order
   of the captured lines: the i-th line shown is the rewriting of the i-th
   line captured, and a line that holds neither "Deploying project" nor
   "Deployed actions" is shown unchanged. When the backend returned no
   error the rewritten transcript, empty or not, is handed to the display
   call exactly once, nothing is written directly to the output stream and
   the display call's result is returned. *)
C24_RewritingKeepsLines ==
    /\ TranscriptShown =>
          /\ Len(ShownLines) = Len(BackendCaptured)
          /\ \A i \in 1..Len(BackendCaptured) :
                /\ Rewritten(BackendCaptured[i], ShownLines[i])
                /\ Unmarked(BackendCaptured[i]) => ShownLines[i] = BackendCaptured[i]
    /\ (DeployExecuted /\ BackendError = NilErr) =>
          /\ Len(calls) = 2
          /\ calls[2].fn = "PrintServerlessTextOutput"
          /\ Len(calls[2].captured) = Len(BackendCaptured)
          /\ \A i \in 1..Len(BackendCaptured) :
                Rewritten(BackendCaptured[i], calls[2].captured[i])
          /\ out = <<>>
          /\ result = calls[2].err

C24_Witness ==
    /\ DeployExecuted
    /\ BackendError = NilErr
    /\ BackendCaptured = << <<" ","X">>, EmptyStr >>
    /\ Len(calls) = 2
    /\ calls[2].captured = BackendCaptured
    /\ out = <<>>
    /\ result = NilErr

----------------------------------------------------------------------------
(* Further claims about the language resolver, checked under SpecCreate.   *)

\* the kind of an alias keyword
KindOfKeyword(kw) ==
    IF kw \in {strTs, strTypescript, strJs, strJavascript}
    THEN <<"n","o","d","e","j","s",":","d","e","f","a","u","l","t">>
    ELSE IF kw = strPy THEN <<"p","y","t","h","o","n",":","d","e","f","a","u","l","t">>
    ELSE IF kw = strGolang THEN <<"g","o",":","d","e","f","a","u","l","t">>
    ELSE kw \o <<":","d","e","f","a","u","l","t">>

(* C25: for every language token that init accepts, the runtime under
   which the alias table lists the keyword, which is the one validated, is
   the runtime before ":default" in the kind the resolver returns: ts,
   typescript, js and javascript give "nodejs:default", py gives
   "python:default", golang gives "go:default" and a runtime's own name
   gives "<name>:default"; the typescript flag is true exactly for ts and
   typescript. A successful init shows both: project.yml names that kind
   and the src directory exists exactly for typescript. *)
C25_ValidatedRuntimeIsKindRuntime ==
    InitRanOnPath =>
        \A m \in MatchingRuntimes(ToLower(doit.language)) :
            \A r \in { languageToKindAndSample(doit.language, m, host) } :
                r.err = NilErr =>
                    /\ r.kind = m \o <<":","d","e","f","a","u","l","t">>
                    /\ Split(r.kind, colon)[1] = m
                    /\ KeywordsOfToken(doit.language) # {}
                    /\ \A kw \in KeywordsOfToken(doit.language) :
                          /\ r.kind = KindOfKeyword(kw)
                          /\ r.ts <=> kw \in {strTs, strTypescript}
                    /\ result = NilErr =>
                          /\ FileAt(JoinPath(args[1], strProjectYml), SampleSpecText(m))
                          /\ SrcDirOf(args[1]) \in DOMAIN fs
                                <=> TokenIsTypescript(doit.language)

C25_Witness ==
    /\ InitSucceeded
    /\ doit.language = strGolang
    /\ HostAnswers /\ strGo \in host.runtimes
    /\ Len(calls) = 3
    /\ languageToKindAndSample(doit.language, strGo, host).kind = KindOfKeyword(strGolang)
    /\ ~languageToKindAndSample(doit.language, strGo, host).ts
    /\ FileAt(JoinPath(args[1], strProjectYml), SampleSpecText(strGo))

\* the option holds a value whose last comma-separated token is "web"
EndsWithWeb(f) ==
    /\ ~f.err
    /\ \A t \in { Split(f.val, comma) } : t[Len(t)] = keywordWeb

\* 'after' is the exclude option 'before' as the normalizer rewrites it
ExcludeRewritten(before, after) ==
    /\ ~after.err
    /\ IF Present(before)
       THEN \A t0 \in { Split(before.val, comma) }, t1 \in { Split(after.val, comma) } :
               /\ Len(t1) = Len(t0) + 1
               /\ t1[Len(t1)] = keywordWeb
               /\ WebQualified(t0, SubSeq(t1, 1, Len(t0)))
       ELSE after.val = keywordWeb

(* C26: in deploy, watch and get-metadata the normalizer runs first. Every
   call to the backend (synchronous or streaming) and to the project reader
   is made with the options as the normalizer left them, whose exclude
   option ends with the token "web"; and an invocation that returns the
   missing-arguments error has rewritten the exclude option all the same:
   it differs from the one given and ends with "web". *)
C26_NormalizerRunsFirst ==
    ExecCommandDone =>
        /\ ExcludeRewritten(given.doit[flagExclude], doit[flagExclude])
        /\ EndsWithWeb(doit[flagExclude])
        /\ \A i \in CollaboratorCalls :
              /\ calls[i].doit = doit
              /\ EndsWithWeb(calls[i].doit[flagExclude])
        /\ result = MissingArgsErr =>
              /\ calls = <<>>
              /\ doit[flagExclude] # given.doit[flagExclude]

C26_Witness ==
    /\ pc = "done" /\ cmd = "get-metadata"
    /\ args = <<>>
    /\ result = MissingArgsErr
    /\ given.doit[flagExclude] = FlagSet(strFooWeb)
    /\ doit[flagExclude] = FlagSet(strFooWebSlashWeb)

====
